---- MODULE Spec2Model ----
(***************************************************************************)
(* Structured-extraction pipelines of the Langchain_Projects repository:   *)
(* the invoice extractor, the resume screener, the ticket classifier and   *)
(* the MCQ response parser.                                                *)
(*                                                                         *)
(* Text is modelled at character level: a Python str is a sequence of      *)
(* one-character strings, so that slicing, strip(), startswith(), regular  *)
(* expression search and json.loads are computed as the code computes      *)
(* them.  The language model and the PDF reader are the environment: each  *)
(* input item carries the outcome the environment gives for it.            *)
(***************************************************************************)
EXTENDS Integers, Sequences, FiniteSets, TLC

VARIABLES
    inv_files,      \* pdf_files handed to process_multiple_files
    inv_i,          \* index of the file the for loop is at (1-based)
    inv_pc,         \* position inside extract_invoice_data / the loop body
    inv_text,       \* invoice_text of the current file
    inv_resp,       \* response of chain.run for the current file
    inv_out,        \* outcome of extract_invoice_data for the current file
    inv_tier,       \* which parse tier produced inv_out
    inv_results,    \* results list of process_multiple_files
    inv_log,        \* stage events <<file index, stage>> in execution order
    inv_summary,    \* the summary metrics the page shows: total, successful, failed
    mcq_resp,       \* the model response handed to parse_mcq_response
    mcq_pc,         \* "parse" before parse_mcq_response ran, "done" after
    mcq_data,       \* outcome of parse_mcq_response
    mcq_tier,       \* which parser produced mcq_data: "json" or "lines"
    mcq_view,       \* what display_mcqs did with mcq_data
    hr_files,       \* resume_files handed to process_multiple_resumes
    hr_i,           \* index of the resume the for loop is at (1-based)
    hr_pc,          \* position inside the loop body
    hr_text,        \* resume_text of the current resume
    hr_analysis,    \* analysis of the current resume
    hr_key_info,    \* key_info of the current resume
    hr_results,     \* results list, in append order
    hr_progress,    \* progress_bar.progress calls: <<numerator, denominator>>
    hr_log,         \* stage events <<resume index, stage>> in execution order
    hr_ret,         \* the list process_multiple_resumes returns
    tk_rows,        \* the rows of the CSV, each with what ollama.chat does for it
    tk_i,           \* index of the row the loop is at (1-based)
    tk_pc,          \* "classify", "assign", "done", or "aborted" by an exception
    tk_results,     \* results list of the batch loop
    tk_label,       \* the value classify_text returned last
    tk_progress,    \* prog.progress calls: <<numerator, denominator>>
    tk_column,      \* df["predicted_category"]
    em_stream,      \* what chain.stream yields: its chunks, and whether it ends or raises
    em_n,           \* number of chunks received so far
    em_partial,     \* the local partial of stream_response
    em_display,     \* the texts handed to placeholder.markdown, in call order
    em_pc,          \* "stream", "done" after the return, "raised" by the stream
    em_ret,         \* the value stream_response returned
    yt_service,     \* what requests.post does: refuses, or answers with status and body
    yt_pc,          \* "call" before call_ollama_api ran, "done" after
    yt_out,         \* outcome of call_ollama_api
    cr_code,        \* the code handed to MultiAgentCodeReviewer.review_code
    cr_language,    \* the language handed to review_code
    cr_llm,         \* what the model call does for each agent, in agent order
    cr_i,           \* index of the agent the loop is at (1-based)
    cr_pc,          \* "review" inside the loop, "return", "done"
    cr_prompts,     \* the prompt texts sent to the model, in call order
    cr_reviews,     \* the reviews dict of review_code
    cr_ret,         \* the dict review_code returned
    rc_history,     \* st.session_state.recipe_history
    rc_n,           \* number of times the Generate Recipe button was handled
    rc_context,     \* the context dict generate_recipe built last
    rc_prompt,      \* the prompt text generate_recipe sent to the model last
    rc_out,         \* outcome of the last generate_recipe call
    ch_messages,    \* st.session_state['messages']
    ch_conversation, \* st.session_state['conversation']: None, or the chain with its memory
    ch_pc,          \* "idle" between script runs, "get" inside getresponse, "reply" after it returned
    ch_input,       \* user_input of the submit being handled
    ch_model,       \* model_name passed to getresponse
    ch_url,         \* base_url passed to getresponse
    ch_reply,       \* the value getresponse returned
    ch_n,           \* number of submits handled
    ch_attempts,    \* number of times a ConversationChain was constructed or failed to be
    ch_calls,       \* the getresponse calls so far: input and returned value
    sq_pc,          \* "idle" between submits, then "write", "chain", "show"
    sq_question,    \* the question of the submit being handled
    sq_sql,         \* sql_query, the answer of the first write_query.invoke
    sq_executed,    \* the queries the database executed, in order
    sq_ret,         \* what execute_query_and_get_answer returned
    sq_history,     \* st.session_state.chat_history
    sq_n            \* number of submits handled

inv_vars == <<inv_files, inv_i, inv_pc, inv_text, inv_resp, inv_out,
              inv_tier, inv_results, inv_log, inv_summary>>
mcq_vars == <<mcq_resp, mcq_pc, mcq_data, mcq_tier, mcq_view>>

hr_vars == <<hr_files, hr_i, hr_pc, hr_text, hr_analysis, hr_key_info,
             hr_results, hr_progress, hr_log, hr_ret>>

tk_vars == <<tk_rows, tk_i, tk_pc, tk_results, tk_label, tk_progress, tk_column>>

em_vars == <<em_stream, em_n, em_partial, em_display, em_pc, em_ret>>
yt_vars == <<yt_service, yt_pc, yt_out>>
cr_vars == <<cr_code, cr_language, cr_llm, cr_i, cr_pc, cr_prompts, cr_reviews, cr_ret>>
rc_vars == <<rc_history, rc_n, rc_context, rc_prompt, rc_out>>
ch_vars == <<ch_messages, ch_conversation, ch_pc, ch_input, ch_model, ch_url, ch_reply, ch_n, ch_attempts, ch_calls>>
sq_vars == <<sq_pc, sq_question, sq_sql, sq_executed, sq_ret, sq_history, sq_n>>

\* the variables of the programs other than the one taking a step
inv_others == <<mcq_vars, hr_vars, tk_vars, em_vars, yt_vars, cr_vars, rc_vars, ch_vars, sq_vars>>
mcq_others == <<inv_vars, hr_vars, tk_vars, em_vars, yt_vars, cr_vars, rc_vars, ch_vars, sq_vars>>
hr_others == <<inv_vars, mcq_vars, tk_vars, em_vars, yt_vars, cr_vars, rc_vars, ch_vars, sq_vars>>
tk_others == <<inv_vars, mcq_vars, hr_vars, em_vars, yt_vars, cr_vars, rc_vars, ch_vars, sq_vars>>
em_others == <<inv_vars, mcq_vars, hr_vars, tk_vars, yt_vars, cr_vars, rc_vars, ch_vars, sq_vars>>
yt_others == <<inv_vars, mcq_vars, hr_vars, tk_vars, em_vars, cr_vars, rc_vars, ch_vars, sq_vars>>
cr_others == <<inv_vars, mcq_vars, hr_vars, tk_vars, em_vars, yt_vars, rc_vars, ch_vars, sq_vars>>
rc_others == <<inv_vars, mcq_vars, hr_vars, tk_vars, em_vars, yt_vars, cr_vars, ch_vars, sq_vars>>
ch_others == <<inv_vars, mcq_vars, hr_vars, tk_vars, em_vars, yt_vars, cr_vars, rc_vars, sq_vars>>
sq_others == <<inv_vars, mcq_vars, hr_vars, tk_vars, em_vars, yt_vars, cr_vars, rc_vars, ch_vars>>

vars == <<inv_vars, mcq_vars, hr_vars, tk_vars, em_vars, yt_vars, cr_vars, rc_vars, ch_vars, sq_vars>>

----------------------------------------------------------------------------
(* Characters and strings *)

WS == {" ", "\n"}
Digits == {"0", "1", "2", "3", "4", "5", "6", "7", "8", "9"}

Upper == {"A", "B", "C", "D", "E", "F", "G", "H", "I", "J", "K", "L", "M",
          "N", "O", "P", "Q", "R", "S", "T", "U", "V", "W", "X", "Y", "Z"}
DigitVal(c) ==
    CASE c = "0" -> 0 [] c = "1" -> 1 [] c = "2" -> 2 [] c = "3" -> 3
      [] c = "4" -> 4 [] c = "5" -> 5 [] c = "6" -> 6 [] c = "7" -> 7
      [] c = "8" -> 8 [] c = "9" -> 9

MinOf(S) == CHOOSE x \in S : \A y \in S : x <= y
MaxOf(S) == CHOOSE x \in S : \A y \in S : x >= y

\* s[a:b] of Python for 0 <= a and b counted from the front (0-based, b exclusive)
Slice(s, a, b) == IF b <= a THEN <<>> ELSE SubSeq(s, a + 1, IF b > Len(s) THEN Len(s) ELSE b)

\* str.strip()
Strip(s) ==
    LET keep == {k \in 1..Len(s) : s[k] \notin WS}
    IN  IF keep = {} THEN <<>> ELSE SubSeq(s, MinOf(keep), MaxOf(keep))

\* s.startswith(lit) from position i (1-based)
MatchAt(s, i, lit) ==
    /\ i >= 1
    /\ i + Len(lit) - 1 <= Len(s)
    /\ \A k \in 1..Len(lit) : s[i + k - 1] = lit[k]

StartsWith(s, lit) == MatchAt(s, 1, lit)

\* lit in s
Contains(s, lit) == \E i \in 1..(Len(s) + 1) : MatchAt(s, i, lit)

\* the JSON text of the string k
Quoted(k) == <<"\"">> \o k \o <<"\"">>

\* positions of character c in s
Positions(s, c) == {k \in 1..Len(s) : s[k] = c}

----------------------------------------------------------------------------
(* json.loads on the model's alphabet.  Values are tagged records.          *)
(* Numbers are the integers without sign, fraction or exponent; the inputs  *)
(* of the model hold no '-', '.', or digit followed by 'e'.                 *)

JNull == [t |-> "null"]
JBool(b) == [t |-> "bool", b |-> b]
JNum(n) == [t |-> "num", n |-> n]
JStr(s) == [t |-> "str", s |-> s]
JArr(xs) == [t |-> "arr", xs |-> xs]
JObj(f) == [t |-> "obj", f |-> f]

IsObj(v) == v.t = "obj"
Keys(v) == DOMAIN v.f

JFail == [ok |-> FALSE, v |-> JNull, p |-> 0]
JOk(v, p) == [ok |-> TRUE, v |-> v, p |-> p]

\* index of the first non-whitespace character at or after i (Len(s)+1 if none)
SkipWs(s, i) == MinOf({j \in i..(Len(s) + 1) : j = Len(s) + 1 \/ s[j] \notin WS})

\* a string literal starting at the quote s[i]; a raw newline inside is invalid
ScanString(s, i) ==
    LET ends == {j \in (i + 1)..Len(s) : s[j] = "\""}
    IN  IF ends = {} THEN JFail
        ELSE LET j == MinOf(ends)
             IN  IF \E k \in (i + 1)..(j - 1) : s[k] = "\n" THEN JFail
                 ELSE JOk(JStr(SubSeq(s, i + 1, j - 1)), j + 1)

RECURSIVE DigitsValue(_, _, _)
DigitsValue(s, i, j) ==
    IF j < i THEN 0 ELSE 10 * DigitsValue(s, i, j - 1) + DigitVal(s[j])

\* NUMBER_RE: 0 | [1-9][0-9]*
ScanNumber(s, i) ==
    IF s[i] = "0" THEN JOk(JNum(0), i + 1)
    ELSE LET stop == MinOf({j \in (i + 1)..(Len(s) + 1) : j = Len(s) + 1 \/ s[j] \notin Digits})
         IN  JOk(JNum(DigitsValue(s, i, stop - 1)), stop)

RECURSIVE ParseValue(_, _), ParseMembers(_, _, _), ParseElements(_, _, _)

ParseValue(s, i) ==
    IF i > Len(s) THEN JFail
    ELSE CASE s[i] = "{" ->
                LET j == SkipWs(s, i + 1)
                IN  IF j <= Len(s) /\ s[j] = "}" THEN JOk(JObj(<<>>), j + 1)
                    ELSE ParseMembers(s, j, <<>>)
           [] s[i] = "[" ->
                LET j == SkipWs(s, i + 1)
                IN  IF j <= Len(s) /\ s[j] = "]" THEN JOk(JArr(<<>>), j + 1)
                    ELSE ParseElements(s, j, <<>>)
           [] s[i] = "\"" -> ScanString(s, i)
           [] s[i] \in Digits -> ScanNumber(s, i)
           [] MatchAt(s, i, <<"n", "u", "l", "l">>) -> JOk(JNull, i + 4)
           [] MatchAt(s, i, <<"t", "r", "u", "e">>) -> JOk(JBool(TRUE), i + 4)
           [] MatchAt(s, i, <<"f", "a", "l", "s", "e">>) -> JOk(JBool(FALSE), i + 5)
           [] OTHER -> JFail

\* "key" : value pairs up to the closing brace; a repeated key keeps the last value
ParseMembers(s, i, acc) ==
    IF i > Len(s) \/ s[i] # "\"" THEN JFail
    ELSE LET key == ScanString(s, i)
         IN  IF ~key.ok THEN JFail
             ELSE LET c == SkipWs(s, key.p)
                  IN  IF c > Len(s) \/ s[c] # ":" THEN JFail
                      ELSE LET val == ParseValue(s, SkipWs(s, c + 1))
                           IN  IF ~val.ok THEN JFail
                               ELSE LET acc2 == (key.v.s :> val.v) @@ acc
                                        m == SkipWs(s, val.p)
                                    IN  IF m > Len(s) THEN JFail
                                        ELSE IF s[m] = "}" THEN JOk(JObj(acc2), m + 1)
                                        ELSE IF s[m] = "," THEN ParseMembers(s, SkipWs(s, m + 1), acc2)
                                        ELSE JFail

ParseElements(s, i, acc) ==
    LET val == ParseValue(s, i)
    IN  IF ~val.ok THEN JFail
        ELSE LET acc2 == Append(acc, val.v)
                 m == SkipWs(s, val.p)
             IN  IF m > Len(s) THEN JFail
                 ELSE IF s[m] = "]" THEN JOk(JArr(acc2), m + 1)
                 ELSE IF s[m] = "," THEN ParseElements(s, SkipWs(s, m + 1), acc2)
                 ELSE JFail

\* json.loads(s): [ok |-> TRUE, v |-> value], or ok = FALSE for JSONDecodeError
JsonLoads(s) ==
    LET r == ParseValue(s, SkipWs(s, 1))
    IN  IF r.ok /\ SkipWs(s, r.p) = Len(s) + 1
        THEN [ok |-> TRUE, v |-> r.v]
        ELSE [ok |-> FALSE, v |-> JNull]

----------------------------------------------------------------------------
(* Invoice extractor: InvoiceProcessor (invoice_processor.py)               *)

MaxFiles == 3

K_filename == <<"f", "i", "l", "e", "n", "a", "m", "e">>
K_error == <<"e", "r", "r", "o", "r">>
K_email == <<"e", "m", "a", "i", "l">>
K_phone == <<"p", "h", "o", "n", "e">>

\* the "Required fields" of the extraction prompt
REQUIRED_FIELDS ==
    {<<"i", "n", "v", "o", "i", "c", "e", "_", "n", "u", "m", "b", "e", "r">>, <<"i", "n", "v", "o", "i", "c", "e", "_", "d", "a", "t", "e">>, <<"c", "o", "m", "p", "a", "n", "y", "_", "n", "a", "m", "e">>, <<"c", "o", "m", "p", "a", "n", "y", "_", "a", "d", "d", "r", "e", "s", "s">>,
     <<"c", "u", "s", "t", "o", "m", "e", "r", "_", "n", "a", "m", "e">>, <<"c", "u", "s", "t", "o", "m", "e", "r", "_", "a", "d", "d", "r", "e", "s", "s">>, <<"i", "t", "e", "m", "s">>, <<"s", "u", "b", "t", "o", "t", "a", "l">>, <<"t", "a", "x", "_", "a", "m", "o", "u", "n", "t">>,
     <<"t", "o", "t", "a", "l", "_", "a", "m", "o", "u", "n", "t">>, K_phone, K_email}

\* the backquote character (U+0060), which a TLA+ string cannot hold
BQ == "BACKQUOTE"
Fence == <<BQ, BQ, BQ>>
FenceNl == <<BQ, BQ, BQ, "\n">>

\* an outcome of a call: a returned value, or a raised Exception with str(e) = msg
Return(v) == [ok |-> TRUE, v |-> v, msg |-> <<>>]
Raise(msg) == [ok |-> FALSE, v |-> JNull, msg |-> msg]
NoOutcome == Raise(<<>>)

\* lines 102-106: strip, then cut a leading code fence by fixed offsets
CleanResponse(response) ==
    LET r == Strip(response)
    IN  IF StartsWith(r, FenceNl) THEN Slice(r, 7, Len(r) - 3)
        ELSE IF StartsWith(r, Fence) THEN Slice(r, 3, Len(r) - 3)
        ELSE r

\* re.search of the pattern brace, any characters (DOTALL, greedy), brace: is there a match
HasSpan(s) ==
    /\ Positions(s, "{") # {}
    /\ \E j \in Positions(s, "}") : j > MinOf(Positions(s, "{"))


\* .group() of that match: from the first '{' to the last '}'
GreedySpan(s) == SubSeq(s, MinOf(Positions(s, "{")), MaxOf(Positions(s, "}")))

\* lines 111-119: the except json.JSONDecodeError branch, on the cleaned response
RecoverFromSpan(r) ==
    IF HasSpan(r)
    THEN LET j == JsonLoads(GreedySpan(r))
         IN  IF j.ok THEN Return(j.v)
             ELSE Raise(<<"Error processing invoice: ", "JSONDecodeError">>)
    ELSE Raise(<<"Error processing invoice: ", "Unable to parse JSON from model response">>)

NOT_SPECIFIED == <<"N", "o", "t", " ", "s", "p", "e", "c", "i", "f", "i", "e", "d">>

\* a parsing step that never raises: an empty record when nothing is recovered
ParseInvoiceResponse_NeverRaises(response) ==
    LET r == CleanResponse(response)
        strict == JsonLoads(r)
        rec == RecoverFromSpan(r)
    IN  IF strict.ok THEN [out |-> Return(strict.v), tier |-> "strict"]
        ELSE [out |-> IF rec.ok THEN rec ELSE Return(JObj(<<>>)), tier |-> "recovered"]

\* a parsing step that fills the required fields the model omitted
ParseInvoiceResponse_WithDefaults(response) ==
    LET r == CleanResponse(response)
        strict == JsonLoads(r)
        Fill(out) == IF out.ok /\ IsObj(out.v)
                     THEN Return(JObj(out.v.f @@ [k \in REQUIRED_FIELDS |-> JStr(NOT_SPECIFIED)]))
                     ELSE out
    IN  IF strict.ok THEN [out |-> Fill(Return(strict.v)), tier |-> "strict"]
        ELSE [out |-> Fill(RecoverFromSpan(r)), tier |-> "recovered"]

\* a parsing step that looks for a brace-delimited span before the strict parse
ParseInvoiceResponse_SpanFirst(response) ==
    LET r == CleanResponse(response)
        strict == JsonLoads(r)
    IN  IF HasSpan(r) /\ RecoverFromSpan(r).ok THEN [out |-> RecoverFromSpan(r), tier |-> "recovered"]
        ELSE IF strict.ok THEN [out |-> Return(strict.v), tier |-> "strict"]
        ELSE [out |-> RecoverFromSpan(r), tier |-> "recovered"]

\* lines 100-122: the parsing step of extract_invoice_data; tier names the
\* parse that decided the outcome
ParseInvoiceResponse(response) ==
    LET r == CleanResponse(response)
        strict == JsonLoads(r)
    IN  IF strict.ok THEN [out |-> Return(strict.v), tier |-> "strict"]
        ELSE [out |-> RecoverFromSpan(r), tier |-> "recovered"]

\* lines 74-85 and 91-94: text of the PDF, stripped; empty text is an error
TextStage(file) ==
    IF ~file.pdf.ok
    THEN Raise(<<"Error processing invoice: ", "Error extracting text from PDF: ", "PdfReadError">>)
    ELSE IF Strip(file.pdf.text) = <<>>
    THEN Raise(<<"Error processing invoice: ", "No text found in the PDF file">>)
    ELSE Return(JStr(Strip(file.pdf.text)))

\* line 97: chain.run; the environment's answer for this file
Response(file) == file.llm.pre \o file.llm.core \o file.llm.post

CompletionStage(file) ==
    IF ~file.llm.ok THEN Raise(<<"Error processing invoice: ", "ConnectionError">>)
    ELSE Return(JStr(Response(file)))

\* extract_invoice_data(pdf_file) run on its own
ExtractInvoiceData(file) ==
    IF ~TextStage(file).ok THEN TextStage(file)
    ELSE IF ~CompletionStage(file).ok THEN CompletionStage(file)
    ELSE ParseInvoiceResponse(Response(file)).out

\* data['filename'] = pdf_file.name
SetKey(obj, k, v) == JObj((k :> v) @@ obj.f)

ErrorRecord(name, msg) == JObj((K_filename :> JStr(name)) @@ (K_error :> JStr(msg)))

\* lines 129-137: the body of the for loop after extract_invoice_data came back
BatchEntry(file, out) ==
    IF out.ok
    THEN IF IsObj(out.v) THEN SetKey(out.v, K_filename, JStr(file.name))
         ELSE ErrorRecord(file.name, <<"TypeError">>)
    ELSE ErrorRecord(file.name, out.msg)

(* Inputs *)

S_objA == <<"{", "\"", "a", "\"", ":", "1", "}">>
S_objEmail == <<"{", "\"", "e", "m", "a", "i", "l", "\"", ":", "\"", "a", "\"", "}">>
S_objNested == <<"{", "\"", "a", "\"", ":", "{", "\"", "b", "\"", ":", "1", "}", "}">>
S_objError == <<"{", "\"", "e", "r", "r", "o", "r", "\"", ":", "1", "}">>
S_arr == <<"[", "1", "]">>
S_num == <<"1">>
S_prose == <<"x">>
S_trunc == <<"{", "\"", "a", "\"", ":">>

Cores == {S_objA, S_objEmail, S_objNested, S_objError, S_arr, S_num, S_prose, S_trunc}
Pres == {<<>>, <<"x", " ">>, Fence, FenceNl, Fence \o <<"j", "s", "o", "n", "\n">>,
         <<"{", "x", "}", " ">>, <<" ">>, <<"[">>}
Posts == {<<>>, <<" ", "x">>, Fence, <<"\n">> \o Fence, <<" ", "{", "x", "}">>,
          <<"}">>, <<"]">>}

PdfOk == [ok |-> TRUE, text |-> <<"i", "n", "v">>]
PdfBlank == [ok |-> TRUE, text |-> <<" ", "\n">>]
PdfBroken == [ok |-> FALSE, text |-> <<>>]
LlmSays(pre, core, post) == [ok |-> TRUE, pre |-> pre, core |-> core, post |-> post]
LlmDown == [ok |-> FALSE, pre |-> <<>>, core |-> <<>>, post |-> <<>>]

\* what the environment does with one file: (PDF reader outcome, model outcome)
BatchKinds ==
    {<<PdfBroken, LlmDown>>, <<PdfBlank, LlmDown>>, <<PdfOk, LlmDown>>,
     <<PdfOk, LlmSays(<<>>, S_objEmail, <<>>)>>,
     <<PdfOk, LlmSays(<<"x", " ">>, S_objA, <<" ", "x">>)>>,
     <<PdfOk, LlmSays(<<>>, S_objError, <<>>)>>,
     <<PdfOk, LlmSays(<<>>, S_arr, <<>>)>>,
     <<PdfOk, LlmSays(<<>>, S_prose, <<>>)>>}

SingleKinds == {<<PdfOk, LlmSays(pre, core, post)>> : pre \in Pres, core \in Cores, post \in Posts}

FileName(i) == <<"invoice", ToString(i)>>

MakeFiles(kinds) == [i \in 1..Len(kinds) |-> [name |-> FileName(i), pdf |-> kinds[i][1], llm |-> kinds[i][2]]]

KindSeqs(n) == [1..n -> BatchKinds]

\* app.py line 63: len([r for r in results if 'error' not in r])
Successful(results) == Cardinality({i \in 1..Len(results) : K_error \notin Keys(results[i])})

\* app.py line 64: len([r for r in results if 'error' in r])
Failed(results) == Cardinality({i \in 1..Len(results) : K_error \in Keys(results[i])})

\* no summary is shown before the batch has run
NoSummary == [total |-> 0, successful |-> 0, failed |-> 0]

\* process_multiple_files(pdf_files) is entered
InvStart(pdf_files) ==
    /\ inv_files = pdf_files
    /\ inv_i = 1
    /\ inv_pc = "text"
    /\ inv_text = <<>>
    /\ inv_resp = <<>>
    /\ inv_out = NoOutcome
    /\ inv_tier = "none"
    /\ inv_results = <<>>
    /\ inv_log = <<>>
    /\ inv_summary = NoSummary

InvInit ==
    \E pdf_files \in {MakeFiles(ks) : ks \in UNION {KindSeqs(n) : n \in 1..MaxFiles}}
                         \cup {MakeFiles(<<k>>) : k \in SingleKinds} : InvStart(pdf_files)

\* extract_invoice_data, lines 91-94
InvExtractText ==
    /\ inv_pc = "text"
    /\ LET r == TextStage(inv_files[inv_i])
       IN  /\ inv_log' = Append(inv_log, <<inv_i, "text">>)
           /\ IF r.ok
              THEN inv_text' = r.v.s /\ inv_pc' = "complete" /\ inv_out' = NoOutcome
              ELSE inv_text' = <<>> /\ inv_pc' = "append" /\ inv_out' = r
    /\ inv_resp' = <<>>
    /\ inv_tier' = "none"
    /\ UNCHANGED <<inv_files, inv_i, inv_results, inv_summary>>
    /\ UNCHANGED inv_others

\* extract_invoice_data, line 97
InvComplete ==
    /\ inv_pc = "complete"
    /\ LET r == CompletionStage(inv_files[inv_i])
       IN  /\ inv_log' = Append(inv_log, <<inv_i, "complete">>)
           /\ IF r.ok
              THEN inv_resp' = r.v.s /\ inv_pc' = "parse" /\ inv_out' = NoOutcome
              ELSE inv_resp' = <<>> /\ inv_pc' = "append" /\ inv_out' = r
    /\ UNCHANGED <<inv_files, inv_i, inv_text, inv_tier, inv_results, inv_summary>>
    /\ UNCHANGED inv_others

\* a parsing step that asks the model again when the response does not parse
InvParse_Retry ==
    /\ inv_pc = "parse"
    /\ LET r == ParseInvoiceResponse(inv_resp)
       IN  /\ inv_out' = r.out
           /\ inv_tier' = r.tier
           /\ inv_pc' = IF r.out.ok THEN "append" ELSE "complete"
    /\ inv_log' = Append(inv_log, <<inv_i, "parse">>)
    /\ UNCHANGED <<inv_files, inv_i, inv_text, inv_resp, inv_results, inv_summary>>
    /\ UNCHANGED inv_others

\* extract_invoice_data, lines 100-122
InvParse ==
    /\ inv_pc = "parse"
    /\ LET r == ParseInvoiceResponse(inv_resp)
       IN  inv_out' = r.out /\ inv_tier' = r.tier
    /\ inv_log' = Append(inv_log, <<inv_i, "parse">>)
    /\ inv_pc' = "append"
    /\ UNCHANGED <<inv_files, inv_i, inv_text, inv_resp, inv_results, inv_summary>>
    /\ UNCHANGED inv_others

\* process_multiple_files, lines 129-137, and the loop's advance
InvAppend ==
    /\ inv_pc = "append"
    /\ inv_results' = Append(inv_results, BatchEntry(inv_files[inv_i], inv_out))
    /\ inv_log' = Append(inv_log, <<inv_i, "append">>)
    /\ inv_i' = inv_i + 1
    /\ inv_pc' = IF inv_i < Len(inv_files) THEN "text" ELSE "done"
    /\ UNCHANGED <<inv_files, inv_text, inv_resp, inv_out, inv_tier, inv_summary>>
    /\ UNCHANGED inv_others

\* app.py lines 58-71: the summary metrics over st.session_state.extraction_results
InvSummarize ==
    /\ inv_pc = "done"
    /\ inv_summary' = [total |-> Len(inv_results),
                       successful |-> Successful(inv_results),
                       failed |-> Failed(inv_results)]
    /\ inv_pc' = "shown"
    /\ UNCHANGED <<inv_files, inv_i, inv_text, inv_resp, inv_out, inv_tier, inv_results, inv_log>>
    /\ UNCHANGED inv_others

NextInvoice == InvExtractText \/ InvComplete \/ InvParse \/ InvAppend \/ InvSummarize

\* the state of the invoice extractor while another program runs
InvIdle ==
    /\ inv_files = <<>>
    /\ inv_i = 0
    /\ inv_pc = "idle"
    /\ inv_text = <<>>
    /\ inv_resp = <<>>
    /\ inv_out = NoOutcome
    /\ inv_tier = "none"
    /\ inv_results = <<>>
    /\ inv_log = <<>>
    /\ inv_summary = NoSummary

----------------------------------------------------------------------------
(* MCQ maker: parse_mcq_response and parse_text_response (MCQ-Maker/app.py) *)

K_questions == <<"q", "u", "e", "s", "t", "i", "o", "n", "s">>
K_question == <<"q", "u", "e", "s", "t", "i", "o", "n">>
K_options == <<"o", "p", "t", "i", "o", "n", "s">>
K_correct_answer == <<"c", "o", "r", "r", "e", "c", "t", "_", "a", "n", "s", "w", "e", "r">>
K_explanation == <<"e", "x", "p", "l", "a", "n", "a", "t", "i", "o", "n">>

\* response.split('\n')
RECURSIVE SplitLines(_)
SplitLines(s) ==
    IF Positions(s, "\n") = {} THEN <<s>>
    ELSE LET k == MinOf(Positions(s, "\n"))
         IN  <<SubSeq(s, 1, k - 1)>> \o SplitLines(SubSeq(s, k + 1, Len(s)))

\* line.startswith(('A)', 'B)', 'C)', 'D)'))
IsOptionLine(line) == \E c \in {"A", "B", "C", "D"} : StartsWith(line, <<c, ")">>)

McqItem(question, options) ==
    JObj((K_question :> JStr(question)) @@
         (K_options :> JArr([k \in 1..Len(options) |-> JStr(options[k])])) @@
         (K_correct_answer :> JStr(<<"A">>)) @@
         (K_explanation :> JStr(<<"Please verify the correct answer.">>)))

\* a loop that keeps the collected options when a new question line is seen
RECURSIVE ParseLines_KeepOptions(_, _, _, _, _)
ParseLines_KeepOptions(lines, k, cq, co, qs) ==
    IF k > Len(lines)
    THEN IF cq # <<>> /\ co # <<>> THEN Append(qs, McqItem(cq, co)) ELSE qs
    ELSE LET line == Strip(lines[k])
         IN  IF line = <<>> THEN ParseLines_KeepOptions(lines, k + 1, cq, co, qs)
             ELSE IF Positions(line, "?") # {} /\ ~IsOptionLine(line)
             THEN ParseLines_KeepOptions(lines, k + 1, line, co,
                             IF cq # <<>> /\ co # <<>> THEN Append(qs, McqItem(cq, co)) ELSE qs)
             ELSE IF IsOptionLine(line)
             THEN ParseLines_KeepOptions(lines, k + 1, cq, Append(co, line), qs)
             ELSE ParseLines_KeepOptions(lines, k + 1, cq, co, qs)

\* the for loop of parse_text_response from line k on; cq = <<>> stands for None
RECURSIVE ParseLines(_, _, _, _, _)
ParseLines(lines, k, cq, co, qs) ==
    IF k > Len(lines)
    THEN IF cq # <<>> /\ co # <<>> THEN Append(qs, McqItem(cq, co)) ELSE qs
    ELSE LET line == Strip(lines[k])
         IN  IF line = <<>> THEN ParseLines(lines, k + 1, cq, co, qs)
             ELSE IF Positions(line, "?") # {} /\ ~IsOptionLine(line)
             THEN ParseLines(lines, k + 1, line, <<>>,
                             IF cq # <<>> /\ co # <<>> THEN Append(qs, McqItem(cq, co)) ELSE qs)
             ELSE IF IsOptionLine(line)
             THEN ParseLines(lines, k + 1, cq, Append(co, line), qs)
             ELSE ParseLines(lines, k + 1, cq, co, qs)

\* parse_text_response(response)
ParseTextResponse(response) ==
    JObj(K_questions :> JArr(ParseLines(SplitLines(response), 1, <<>>, <<>>, <<>>)))

\* what a for loop over a JSON value iterates: the elements of a list, the
\* characters of a string, the keys of a dict; other values are not iterable
Iterable(v) == v.t \in {"arr", "str", "obj"}

Elements(v) ==
    IF v.t = "arr" THEN {v.xs[k] : k \in 1..Len(v.xs)}
    ELSE IF v.t = "str" THEN {JStr(<<v.s[k]>>) : k \in 1..Len(v.s)}
    ELSE {JStr(k) : k \in Keys(v)}

\* display_mcqs: the message when the data is empty or has no "questions",
\* the questions otherwise; q['question'], q['options'] and the two loops
\* raise on a value of another shape
DisplayMcqs(mcq) ==
    IF Keys(mcq) = {} \/ K_questions \notin Keys(mcq) THEN "no questions"
    ELSE IF ~Iterable(mcq.f[K_questions]) THEN "raised"
    ELSE IF \A q \in Elements(mcq.f[K_questions]) :
                /\ IsObj(q)
                /\ K_question \in Keys(q)
                /\ K_options \in Keys(q)
                /\ Iterable(q.f[K_options])
         THEN "rendered"
         ELSE "raised"

\* parse_mcq_response(response); tier names the parser that produced the result
ParseMcqResponse(response) ==
    IF HasSpan(response)
    THEN LET j == JsonLoads(GreedySpan(response))
         IN  IF j.ok THEN [out |-> Return(j.v), tier |-> "json"]
             ELSE [out |-> Return(ParseTextResponse(response)), tier |-> "lines"]
    ELSE [out |-> Return(ParseTextResponse(response)), tier |-> "lines"]

(* Inputs *)

T_one == <<"Q", "?", "\n", "A", ")", " ", "x", "\n", "B", ")", " ", "y">>
T_two == <<"A", ")", " ", "x", "\n", " ", "Q", "?", "\n", "B", ")", "y", "\n", "\n",
           "R", "?", "\n", "z", "\n", "C", ")", "?">>
T_bare == <<"Q", "?", "\n", "R", "?", "\n", "D", ")">>
T_none == <<"A", ")", " ", "x", "\n", "y">>

MaxLines == 3

LineKinds ==
    {<<"Q", "?">>, <<"R", "?">>, <<"A", ")", " ", "x">>, <<"B", ")", "y">>, <<"C", ")", "?">>,
     <<" ", "D", ")", " ", "w", " ">>, <<"z">>, <<>>}

RECURSIVE JoinLines(_)
JoinLines(ls) ==
    IF Len(ls) = 1 THEN ls[1] ELSE ls[1] \o <<"\n">> \o JoinLines(Tail(ls))

LineTexts ==
    {T_one, T_two, T_bare, T_none}
        \cup {JoinLines(ls) : ls \in UNION {[1..n -> LineKinds] : n \in 1..MaxLines}}

Parts(pre, core, post) == [pre |-> pre, core |-> core, post |-> post]
PartsText(parts) == parts.pre \o parts.core \o parts.post

S_qGood == <<"{", "\"", "q", "u", "e", "s", "t", "i", "o", "n", "s", "\"", ":", "[", "{", "\"", "q", "u", "e", "s", "t", "i", "o", "n", "\"", ":", "\"", "Q", "?", "\"", ",", "\"", "o", "p", "t", "i", "o", "n", "s", "\"", ":", "[", "\"", "A", ")", " ", "x", "\"", "]", "}", "]", "}">>
S_qNoOptions == <<"{", "\"", "q", "u", "e", "s", "t", "i", "o", "n", "s", "\"", ":", "[", "{", "\"", "q", "u", "e", "s", "t", "i", "o", "n", "\"", ":", "\"", "Q", "?", "\"", "}", "]", "}">>
S_qNumber == <<"{", "\"", "q", "u", "e", "s", "t", "i", "o", "n", "s", "\"", ":", "[", "{", "\"", "q", "u", "e", "s", "t", "i", "o", "n", "\"", ":", "\"", "Q", "?", "\"", ",", "\"", "o", "p", "t", "i", "o", "n", "s", "\"", ":", "1", "}", "]", "}">>
S_qNoList == <<"{", "\"", "q", "u", "e", "s", "t", "i", "o", "n", "s", "\"", ":", "1", "}">>
S_qEmpty == <<"{", "\"", "q", "u", "e", "s", "t", "i", "o", "n", "s", "\"", ":", "[", "]", "}">>
S_empty == <<"{", "}">>

McqCores == {S_qGood, S_qNoOptions, S_qNumber, S_qNoList, S_qEmpty, S_empty}

McqResponses ==
    {Parts(pre, core, post) : pre \in Pres, core \in Cores, post \in Posts}
        \cup {Parts(<<>>, t, <<>>) : t \in LineTexts}
        \cup {Parts(pre, core, <<>>) : pre \in {<<>>, <<"x", " ">>}, core \in McqCores}

McqInit ==
    /\ mcq_resp \in McqResponses
    /\ mcq_pc = "parse"
    /\ mcq_data = NoOutcome
    /\ mcq_tier = "none"
    /\ mcq_view = "none"

McqIdle ==
    /\ mcq_resp = Parts(<<>>, <<>>, <<>>)
    /\ mcq_pc = "idle"
    /\ mcq_data = NoOutcome
    /\ mcq_tier = "none"
    /\ mcq_view = "none"

\* main(): mcq_data = parse_mcq_response(mcq_response)
McqParse ==
    /\ mcq_pc = "parse"
    /\ LET r == ParseMcqResponse(PartsText(mcq_resp))
       IN  mcq_data' = r.out /\ mcq_tier' = r.tier
    /\ mcq_pc' = "done"
    /\ UNCHANGED <<mcq_resp, mcq_view>>
    /\ UNCHANGED mcq_others

\* main(): display_mcqs(mcq_data)
McqDisplay ==
    /\ mcq_pc = "done"
    /\ mcq_view' = DisplayMcqs(mcq_data.v)
    /\ mcq_pc' = "shown"
    /\ UNCHANGED <<mcq_resp, mcq_data, mcq_tier>>
    /\ UNCHANGED mcq_others

NextMcq == McqParse \/ McqDisplay

----------------------------------------------------------------------------
(* Resume screener: ResumeAnalyzer and BatchProcessor (HR-Resume-Screener)  *)

MaxResumes == 3
MaxFrags == 3

UpperSeq == <<"A", "B", "C", "D", "E", "F", "G", "H", "I", "J", "K", "L", "M",
              "N", "O", "P", "Q", "R", "S", "T", "U", "V", "W", "X", "Y", "Z">>
LowerSeq == <<"a", "b", "c", "d", "e", "f", "g", "h", "i", "j", "k", "l", "m",
              "n", "o", "p", "q", "r", "s", "t", "u", "v", "w", "x", "y", "z">>

\* re.IGNORECASE: characters are compared after case folding
LowerOf(c) ==
    IF c \in Upper THEN LowerSeq[CHOOSE k \in 1..26 : UpperSeq[k] = c] ELSE c

MatchAtCI(s, i, lit) ==
    /\ i >= 1
    /\ i + Len(lit) - 1 <= Len(s)
    /\ \A k \in 1..Len(lit) : LowerOf(s[i + k - 1]) = LowerOf(lit[k])

ContainsCI(s, lit) == \E i \in 1..(Len(s) + 1) : MatchAtCI(s, i, lit)

\* index of the first character at or after i that is not in set (Len(s)+1 if none)
SkipSet(s, i, set) == MinOf({j \in i..(Len(s) + 1) : j = Len(s) + 1 \/ s[j] \notin set})

\* the greedy group of a character class: the run of set members starting at i
RunFrom(s, i, set) == SubSeq(s, i, SkipSet(s, i, set) - 1)

StartsRun(s, i, set) == i <= Len(s) /\ s[i] \in set

HIRE == <<"H", "I", "R", "E">>
INTERVIEW == <<"I", "N", "T", "E", "R", "V", "I", "E", "W">>
REJECT == <<"R", "E", "J", "E", "C", "T">>
REVIEW == <<"R", "E", "V", "I", "E", "W">>

NoMatch == [found |-> FALSE, group |-> <<>>]
Match(group) == [found |-> TRUE, group |-> group]

\* line 139: MATCH SCORE:\s*(\d+)
SearchMatchScore(s) ==
    LET D(i) == SkipWs(s, i + Len(<<"M", "A", "T", "C", "H", " ", "S", "C", "O", "R", "E", ":">>))
        At(i) == MatchAt(s, i, <<"M", "A", "T", "C", "H", " ", "S", "C", "O", "R", "E", ":">>) /\ StartsRun(s, D(i), Digits)
        Group(i) == RunFrom(s, D(i), Digits)
        starts == {i \in 1..Len(s) : At(i)}
    IN  IF starts = {} THEN NoMatch ELSE Match(Group(MinOf(starts)))

\* line 145: score[:\s]+(\d+), re.IGNORECASE
SearchScoreWord(s) ==
    LET D(i) == SkipSet(s, i + Len(<<"s", "c", "o", "r", "e">>), WS \cup {":"})
        At(i) == MatchAtCI(s, i, <<"s", "c", "o", "r", "e">>) /\ D(i) > i + Len(<<"s", "c", "o", "r", "e">>) /\ StartsRun(s, D(i), Digits)
        Group(i) == RunFrom(s, D(i), Digits)
        starts == {i \in 1..Len(s) : At(i)}
    IN  IF starts = {} THEN NoMatch ELSE Match(Group(MinOf(starts)))

\* line 146: (\d+)/10
SearchOverTen(s) ==
    LET At(i) == StartsRun(s, i, Digits) /\ MatchAt(s, SkipSet(s, i, Digits), <<"/", "1", "0">>)
        Group(i) == RunFrom(s, i, Digits)
        starts == {i \in 1..Len(s) : At(i)}
    IN  IF starts = {} THEN NoMatch ELSE Match(Group(MinOf(starts)))

\* line 147: (\d+)\s*out\s*of\s*10, re.IGNORECASE
SearchOutOfTen(s) ==
    LET O(i) == SkipWs(s, SkipSet(s, i, Digits))
        F(i) == SkipWs(s, O(i) + Len(<<"o", "u", "t">>))
        N(i) == SkipWs(s, F(i) + Len(<<"o", "f">>))
        At(i) == /\ StartsRun(s, i, Digits)
                 /\ MatchAtCI(s, O(i), <<"o", "u", "t">>)
                 /\ MatchAtCI(s, F(i), <<"o", "f">>)
                 /\ MatchAt(s, N(i), <<"1", "0">>)
        Group(i) == RunFrom(s, i, Digits)
        starts == {i \in 1..Len(s) : At(i)}
    IN  IF starts = {} THEN NoMatch ELSE Match(Group(MinOf(starts)))

\* int(match.group(1))
IntOf(group) == DigitsValue(group, 1, Len(group))

DEFAULT_SCORE == 5


\* a pattern list that tries 'n out of 10' before 'n/10'
parse_score_from_analysis_OutOfTenFirst(analysis) ==
    IF SearchMatchScore(analysis).found THEN IntOf(SearchMatchScore(analysis).group)
    ELSE IF SearchScoreWord(analysis).found THEN IntOf(SearchScoreWord(analysis).group)
    ELSE IF SearchOutOfTen(analysis).found THEN IntOf(SearchOutOfTen(analysis).group)
    ELSE IF SearchOverTen(analysis).found THEN IntOf(SearchOverTen(analysis).group)
    ELSE DEFAULT_SCORE

\* ResumeAnalyzer.parse_score_from_analysis
parse_score_from_analysis(analysis) ==
    IF SearchMatchScore(analysis).found THEN IntOf(SearchMatchScore(analysis).group)
    ELSE IF SearchScoreWord(analysis).found THEN IntOf(SearchScoreWord(analysis).group)
    ELSE IF SearchOverTen(analysis).found THEN IntOf(SearchOverTen(analysis).group)
    ELSE IF SearchOutOfTen(analysis).found THEN IntOf(SearchOutOfTen(analysis).group)
    ELSE DEFAULT_SCORE

\* line 163: RECOMMENDATION:\s*([A-Z]+)
SearchRecommendation(s) ==
    LET D(i) == SkipWs(s, i + Len(<<"R", "E", "C", "O", "M", "M", "E", "N", "D", "A", "T", "I", "O", "N", ":">>))
        At(i) == MatchAt(s, i, <<"R", "E", "C", "O", "M", "M", "E", "N", "D", "A", "T", "I", "O", "N", ":">>) /\ StartsRun(s, D(i), Upper)
        Group(i) == RunFrom(s, D(i), Upper)
        starts == {i \in 1..Len(s) : At(i)}
    IN  IF starts = {} THEN NoMatch ELSE Match(Group(MinOf(starts)))

\* ResumeAnalyzer.parse_recommendation_from_analysis
parse_recommendation_from_analysis(analysis) ==
    IF SearchRecommendation(analysis).found THEN SearchRecommendation(analysis).group
    ELSE IF ContainsCI(analysis, <<"h", "i", "r", "e">>) \/ ContainsCI(analysis, <<"r", "e", "c", "o", "m", "m", "e", "n", "d">>) THEN HIRE
    ELSE IF ContainsCI(analysis, <<"i", "n", "t", "e", "r", "v", "i", "e", "w">>) THEN INTERVIEW
    ELSE IF ContainsCI(analysis, <<"r", "e", "j", "e", "c", "t">>) THEN REJECT
    ELSE REVIEW

A_error_prefix == <<"A", "n", "a", "l", "y", "s", "i", "s", " ", "e", "r", "r", "o", "r", ":", " ">>
X_error_prefix == <<"E", "x", "t", "r", "a", "c", "t", "i", "o", "n", " ", "e", "r", "r", "o", "r", ":", " ">>
E_timeout == <<"t", "i", "m", "e", "d", " ", "o", "u", "t">>
PREVIEW_LEN == 500

\* ResumeParser.extract_text_from_pdf: the text, or "" when the loader raises
ExtractResumeText(file) == IF file.pdf.ok THEN file.pdf.text ELSE <<>>

\* ResumeAnalyzer.analyze_resume: the response, or "Analysis error: " + str(e)
AnalyzeResume(file) ==
    IF file.analysis.ok THEN file.analysis.text
    ELSE A_error_prefix \o file.analysis.text

\* ResumeAnalyzer.extract_key_info: the response, or "Extraction error: " + str(e)
ExtractKeyInfo(file) ==
    IF file.extraction.ok THEN file.extraction.text
    ELSE X_error_prefix \o file.extraction.text

\* lines 203-213: the dict appended for a resume
ResumeEntry(name, resume_text, analysis, key_info) ==
    [filename |-> name,
     score |-> parse_score_from_analysis(analysis),
     recommendation |-> parse_recommendation_from_analysis(analysis),
     analysis |-> analysis,
     key_info |-> key_info,
     resume_text |-> Slice(resume_text, 0, PREVIEW_LEN) \o <<".", ".", ".">>]

\* a sort that puts an entry before the entries of equal score
InsertByScore_BeforeTies(sorted, e) ==
    LET k == Cardinality({j \in 1..Len(sorted) : sorted[j].score > e.score})
    IN  SubSeq(sorted, 1, k) \o <<e>> \o SubSeq(sorted, k + 1, Len(sorted))

\* sorted(results, key=score, reverse=True): stable, highest score first
InsertByScore(sorted, e) ==
    LET k == Cardinality({j \in 1..Len(sorted) : sorted[j].score >= e.score})
    IN  SubSeq(sorted, 1, k) \o <<e>> \o SubSeq(sorted, k + 1, Len(sorted))

RECURSIVE SortByScore(_)
SortByScore(results) ==
    IF results = <<>> THEN <<>>
    ELSE InsertByScore(SortByScore(SubSeq(results, 1, Len(results) - 1)), results[Len(results)])

(* Inputs *)

Fragments ==
    {<<"M", "A", "T", "C", "H", " ", "S", "C", "O", "R", "E", ":", " ">>, <<"8">>, <<"1", "2">>, <<"0">>, <<"S", "c", "o", "r", "e", ":">>, <<"/", "1", "0">>, <<" ", "o", "u", "t", " ", "o", "f", " ", "1", "0">>,
     <<"R", "E", "C", "O", "M", "M", "E", "N", "D", "A", "T", "I", "O", "N", ":", " ">>, HIRE, <<"M", "A", "Y", "B", "E">>, <<" ", "i", "n", "t", "e", "r", "v", "i", "e", "w">>, <<"r", "e", "j", "e", "c", "t", " ">>}

RECURSIVE Concat(_)
Concat(ss) == IF ss = <<>> THEN <<>> ELSE Head(ss) \o Concat(Tail(ss))

\* the texts made of at most MaxFrags fragments
AnalysisTexts == {Concat(fs) : fs \in UNION {[1..n -> Fragments] : n \in 0..MaxFrags}}

A_hire8 == <<"M", "A", "T", "C", "H", " ", "S", "C", "O", "R", "E", ":", " ", "8", "\n", "R", "E", "C", "O", "M", "M", "E", "N", "D", "A", "T", "I", "O", "N", ":", " ", "H", "I", "R", "E", " ", "-", " ", "s", "t", "r", "o", "n", "g", " ", "f", "i", "t">>
A_reject3 == <<"M", "A", "T", "C", "H", " ", "S", "C", "O", "R", "E", ":", " ", "3", " ", "r", "e", "j", "e", "c", "t">>
A_interview8 == <<"8", "/", "1", "0", " ", "i", "n", "t", "e", "r", "v", "i", "e", "w">>
A_looks_failed == A_error_prefix \o E_timeout
X_info == <<"{", "}">>

Says(text) == [ok |-> TRUE, text |-> text]
Fails(msg) == [ok |-> FALSE, text |-> msg]
ResumePdf == [ok |-> TRUE, text |-> <<"c", "v">>]

\* what the environment does with one resume: (PDF loader, analysis call, extraction call)
ResumeKinds ==
    {<<PdfBroken, Fails(E_timeout), Fails(E_timeout)>>,
     <<[ok |-> TRUE, text |-> <<>>], Fails(E_timeout), Fails(E_timeout)>>,
     <<ResumePdf, Fails(E_timeout), Fails(E_timeout)>>,
     <<ResumePdf, Says(A_hire8), Says(X_info)>>,
     <<ResumePdf, Says(A_reject3), Says(X_info)>>,
     <<ResumePdf, Says(A_interview8), Fails(E_timeout)>>,
     <<ResumePdf, Says(A_looks_failed), Fails(E_timeout)>>}

SingleResumeKinds == {<<ResumePdf, Says(t), Says(X_info)>> : t \in AnalysisTexts}

ResumeName(i) == <<"resume", ToString(i)>>

MakeResumes(kinds) ==
    [i \in 1..Len(kinds) |-> [name |-> ResumeName(i), pdf |-> kinds[i][1],
                              analysis |-> kinds[i][2], extraction |-> kinds[i][3]]]

\* process_multiple_resumes(resume_files, job_description) is entered
HrStart(resume_files) ==
    /\ hr_files = resume_files
    /\ hr_i = 1
    /\ hr_pc = "progress"
    /\ hr_text = <<>>
    /\ hr_analysis = <<>>
    /\ hr_key_info = <<>>
    /\ hr_results = <<>>
    /\ hr_progress = <<>>
    /\ hr_log = <<>>
    /\ hr_ret = <<>>

HrInit ==
    \E resume_files \in {MakeResumes(ks) : ks \in UNION {[1..n -> ResumeKinds] : n \in 1..MaxResumes}}
                            \cup {MakeResumes(<<k>>) : k \in SingleResumeKinds} : HrStart(resume_files)

HrIdle ==
    /\ hr_files = <<>>
    /\ hr_i = 0
    /\ hr_pc = "idle"
    /\ hr_text = <<>>
    /\ hr_analysis = <<>>
    /\ hr_key_info = <<>>
    /\ hr_results = <<>>
    /\ hr_progress = <<>>
    /\ hr_log = <<>>
    /\ hr_ret = <<>>

\* the for loop moves to the next resume, or ends
HrAdvance ==
    /\ hr_i' = hr_i + 1
    /\ hr_pc' = IF hr_i < Len(hr_files) THEN "progress" ELSE "sort"

\* lines 191-192: status text and progress_bar.progress((i + 1) / len(resume_files))
HrProgress ==
    /\ hr_pc = "progress"
    /\ hr_progress' = Append(hr_progress, <<hr_i, Len(hr_files)>>)
    /\ hr_log' = Append(hr_log, <<hr_i, "progress">>)
    /\ hr_pc' = "text"
    /\ UNCHANGED <<hr_files, hr_i, hr_text, hr_analysis, hr_key_info, hr_results, hr_ret>>
    /\ UNCHANGED hr_others

\* lines 195-197: extract the text; a resume without text is passed over
HrExtractText ==
    /\ hr_pc = "text"
    /\ hr_text' = ExtractResumeText(hr_files[hr_i])
    /\ hr_log' = Append(hr_log, <<hr_i, "text">>)
    /\ IF hr_text' # <<>>
       THEN hr_pc' = "analyze" /\ hr_i' = hr_i
       ELSE HrAdvance
    /\ hr_analysis' = <<>>
    /\ hr_key_info' = <<>>
    /\ UNCHANGED <<hr_files, hr_results, hr_progress, hr_ret>>
    /\ UNCHANGED hr_others

\* line 199: analysis = self.analyzer.analyze_resume(...)
HrAnalyze ==
    /\ hr_pc = "analyze"
    /\ hr_analysis' = AnalyzeResume(hr_files[hr_i])
    /\ hr_pc' = "keyinfo"
    /\ hr_log' = Append(hr_log, <<hr_i, "analyze">>)
    /\ UNCHANGED <<hr_files, hr_i, hr_text, hr_key_info, hr_results, hr_progress, hr_ret>>
    /\ UNCHANGED hr_others

\* line 200: key_info = self.analyzer.extract_key_info(resume_text)
HrExtractKeyInfo ==
    /\ hr_pc = "keyinfo"
    /\ hr_key_info' = ExtractKeyInfo(hr_files[hr_i])
    /\ hr_log' = Append(hr_log, <<hr_i, "keyinfo">>)
    /\ hr_pc' = "append"
    /\ UNCHANGED <<hr_files, hr_i, hr_text, hr_analysis, hr_results, hr_progress, hr_ret>>
    /\ UNCHANGED hr_others

\* lines 203-213: parse score and recommendation, append the entry
HrAppend ==
    /\ hr_pc = "append"
    /\ hr_results' = Append(hr_results,
                            ResumeEntry(hr_files[hr_i].name, hr_text, hr_analysis, hr_key_info))
    /\ hr_log' = Append(hr_log, <<hr_i, "append">>)
    /\ HrAdvance
    /\ UNCHANGED <<hr_files, hr_text, hr_analysis, hr_key_info, hr_progress, hr_ret>>
    /\ UNCHANGED hr_others

\* lines 216-220: return sorted(results, ...)
HrReturn ==
    /\ hr_pc = "sort"
    /\ hr_ret' = SortByScore(hr_results)
    /\ hr_pc' = "done"
    /\ UNCHANGED <<hr_files, hr_i, hr_text, hr_analysis, hr_key_info, hr_results, hr_progress, hr_log>>
    /\ UNCHANGED hr_others

NextResume == HrProgress \/ HrExtractText \/ HrAnalyze \/ HrExtractKeyInfo \/ HrAppend \/ HrReturn

----------------------------------------------------------------------------
(* Ticket classifier: classify_text and the batch loop (Ticketing-Sys/app.py) *)

MaxRows == 4

PRODUCT_BUG == <<"P", "R", "O", "D", "U", "C", "T", "_", "B", "U", "G">>
ACCOUNT_ACCESS == <<"A", "C", "C", "O", "U", "N", "T", "_", "A", "C", "C", "E", "S", "S">>
BILLING == <<"B", "I", "L", "L", "I", "N", "G">>
FEATURE_REQUEST == <<"F", "E", "A", "T", "U", "R", "E", "_", "R", "E", "Q", "U", "E", "S", "T">>
USAGE_QUESTION == <<"U", "S", "A", "G", "E", "_", "Q", "U", "E", "S", "T", "I", "O", "N">>
\* the label "OTHER" (OTHER alone is a reserved word)
OTHER_LABEL == <<"O", "T", "H", "E", "R">>

\* the list CATEGORIES, in its order
CATEGORIES == <<PRODUCT_BUG, ACCOUNT_ACCESS, BILLING, FEATURE_REQUEST, USAGE_QUESTION, OTHER_LABEL>>

CategorySet == {CATEGORIES[k] : k \in 1..Len(CATEGORIES)}

K_category == <<"c", "a", "t", "e", "g", "o", "r", "y">>

\* lines 51-54: the first category, in list order, that occurs in the content
FallbackLabel(content) ==
    LET hits == {k \in 1..Len(CATEGORIES) : Contains(content, CATEGORIES[k])}
    IN  IF hits = {} THEN OTHER_LABEL ELSE CATEGORIES[MinOf(hits)]

\* data.get("category", "OTHER") of a dict
GetCategory(data) == IF K_category \in Keys(data) THEN data.f[K_category] ELSE JStr(OTHER_LABEL)

\* a parse that returns whatever string the model put under "category"
LabelOfContent_Unchecked(content) ==
    LET j == JsonLoads(Strip(content))
    IN  IF j.ok /\ IsObj(j.v)
        THEN LET category == GetCategory(j.v)
             IN  IF category.t = "str" THEN category.s ELSE OTHER_LABEL
        ELSE FallbackLabel(content)

\* lines 43-54: the label for a model answer; json.loads failing, or .get on a
\* value that is no dict, falls through to the except branch
LabelOfContent(content) ==
    LET j == JsonLoads(Strip(content))
    IN  IF j.ok /\ IsObj(j.v)
        THEN LET category == GetCategory(j.v)
             IN  IF category.t = "str" /\ category.s \in CategorySet THEN category.s ELSE OTHER_LABEL
        ELSE FallbackLabel(content)

\* classify_text(text): the label, or the exception of ollama.chat
ClassifyText(row) ==
    IF row.ok THEN Return(JStr(LabelOfContent(row.content)))
    ELSE Raise(<<"ConnectionError">>)

(* Inputs *)

TkObj(key, value) == <<"{", "\"">> \o key \o <<"\"", ":">> \o value \o <<"}">>

TkCores ==
    {TkObj(K_category, Quoted(BILLING)), TkObj(K_category, Quoted(<<"S", "P", "A", "M">>)),
     TkObj(K_category, Quoted(<<"b", "i", "l", "l", "i", "n", "g">>)), TkObj(<<"l", "a", "b", "e", "l">>, Quoted(BILLING)),
     TkObj(K_category, <<"1">>), TkObj(K_category, <<"[">> \o Quoted(BILLING) \o <<"]">>),
     TkObj(K_category, <<"n", "u", "l", "l">>),
     <<"[">> \o Quoted(BILLING) \o <<"]">>, Quoted(USAGE_QUESTION), <<"1">>, <<"{", "}">>,
     BILLING, <<"O", "T", "H", "E", "R", " ", "o", "r", " ", "P", "R", "O", "D", "U", "C", "T", "_", "B", "U", "G">>, <<"n", "o", " ", "i", "d", "e", "a">>, <<>>}
TkPres == {<<>>, <<" ", "\n">>, <<"S", "u", "r", "e", ":", " ">>, <<"F", "E", "A", "T", "U", "R", "E", "_", "R", "E", "Q", "U", "E", "S", "T", " ">>}
TkPosts == {<<>>, <<"\n">>, <<" ", "o", "k">>, <<" ", "A", "C", "C", "O", "U", "N", "T", "_", "A", "C", "C", "E", "S", "S">>}

Answers(content) == [ok |-> TRUE, content |-> content]
ChatDown == [ok |-> FALSE, content |-> <<>>]

\* what ollama.chat does for one row
RowKinds ==
    {ChatDown, Answers(TkObj(K_category, Quoted(BILLING))),
     Answers(TkObj(K_category, Quoted(<<"S", "P", "A", "M">>))),
     Answers(<<"[">> \o Quoted(BILLING) \o <<"]">>),
     Answers(<<"n", "o", " ", "i", "d", "e", "a">>)}

SingleRowKinds == {Answers(pre \o core \o post) : pre \in TkPres, core \in TkCores, post \in TkPosts}

\* the 'Run batch' loop is entered with the rows of the CSV
TkStart(rows) ==
    /\ tk_rows = rows
    /\ tk_i = 1
    /\ tk_pc = "classify"
    /\ tk_results = <<>>
    /\ tk_label = <<>>
    /\ tk_progress = <<>>
    /\ tk_column = <<>>

TkInit ==
    \E rows \in UNION {[1..n -> RowKinds] : n \in 1..MaxRows}
                    \cup {<<k>> : k \in SingleRowKinds} : TkStart(rows)

TkIdle ==
    /\ tk_rows = <<>>
    /\ tk_i = 0
    /\ tk_pc = "idle"
    /\ tk_results = <<>>
    /\ tk_label = <<>>
    /\ tk_progress = <<>>
    /\ tk_column = <<>>

\* max(1, len(df)//100 or 1)
ProgressEvery(n) == IF (IF n \div 100 = 0 THEN 1 ELSE n \div 100) < 1 THEN 1
                    ELSE (IF n \div 100 = 0 THEN 1 ELSE n \div 100)

\* a loop that puts each new label in front of the results
TkClassify_Prepend ==
    /\ tk_pc = "classify"
    /\ LET r == ClassifyText(tk_rows[tk_i])
       IN  IF r.ok
           THEN /\ tk_label' = r.v.s
                /\ tk_results' = <<r.v.s>> \o tk_results
                /\ tk_progress' = IF tk_i % ProgressEvery(Len(tk_rows)) = 0
                                  THEN Append(tk_progress, <<tk_i, Len(tk_rows)>>)
                                  ELSE tk_progress
                /\ tk_i' = tk_i + 1
                /\ tk_pc' = IF tk_i < Len(tk_rows) THEN "classify" ELSE "assign"
           ELSE /\ tk_pc' = "aborted"
                /\ UNCHANGED <<tk_label, tk_results, tk_progress, tk_i>>
    /\ UNCHANGED <<tk_rows, tk_column>>
    /\ UNCHANGED tk_others

\* lines 103-108: one pass of the loop; an exception of classify_text is not
\* caught and ends the run
TkClassify ==
    /\ tk_pc = "classify"
    /\ LET r == ClassifyText(tk_rows[tk_i])
       IN  IF r.ok
           THEN /\ tk_label' = r.v.s
                /\ tk_results' = Append(tk_results, r.v.s)
                /\ tk_progress' = IF tk_i % ProgressEvery(Len(tk_rows)) = 0
                                  THEN Append(tk_progress, <<tk_i, Len(tk_rows)>>)
                                  ELSE tk_progress
                /\ tk_i' = tk_i + 1
                /\ tk_pc' = IF tk_i < Len(tk_rows) THEN "classify" ELSE "assign"
           ELSE /\ tk_pc' = "aborted"
                /\ UNCHANGED <<tk_label, tk_results, tk_progress, tk_i>>
    /\ UNCHANGED <<tk_rows, tk_column>>
    /\ UNCHANGED tk_others

\* line 109: df["predicted_category"] = results
TkAssign ==
    /\ tk_pc = "assign"
    /\ tk_column' = tk_results
    /\ tk_pc' = "done"
    /\ UNCHANGED <<tk_rows, tk_i, tk_results, tk_label, tk_progress>>
    /\ UNCHANGED tk_others

NextTicket == TkClassify \/ TkAssign

----------------------------------------------------------------------------
(* Email rewriter: stream_response (Email-Rewriter/app.py) *)

MaxChunks == 3

\* chunk.content or ""
ContentOrEmpty(chunk) == IF chunk.has THEN chunk.content ELSE <<>>

(* Inputs *)

Chunk(content) == [has |-> TRUE, content |-> content]
ChunkWithoutContent == [has |-> FALSE, content |-> <<>>]

ChunkKinds == {Chunk(<<"H", "i">>), Chunk(<<" ">>), Chunk(<<"!">>), Chunk(<<>>), ChunkWithoutContent}

\* stream_response(chain_inputs) is entered
EmInit ==
    /\ em_stream \in [chunks : UNION {[1..n -> ChunkKinds] : n \in 0..MaxChunks}, ends : BOOLEAN]
    /\ em_n = 0
    /\ em_partial = <<>>
    /\ em_display = <<>>
    /\ em_pc = "stream"
    /\ em_ret = <<>>

EmIdle ==
    /\ em_stream = [chunks |-> <<>>, ends |-> TRUE]
    /\ em_n = 0
    /\ em_partial = <<>>
    /\ em_display = <<>>
    /\ em_pc = "idle"
    /\ em_ret = <<>>

\* a loop body that shows the chunk instead of the text so far
EmChunk_Overwrite ==
    /\ em_pc = "stream"
    /\ em_n < Len(em_stream.chunks)
    /\ em_n' = em_n + 1
    /\ em_partial' = ContentOrEmpty(em_stream.chunks[em_n + 1])
    /\ em_display' = Append(em_display, em_partial')
    /\ UNCHANGED <<em_stream, em_pc, em_ret>>
    /\ UNCHANGED em_others

\* lines 132-134: one chunk arrives
EmChunk ==
    /\ em_pc = "stream"
    /\ em_n < Len(em_stream.chunks)
    /\ em_n' = em_n + 1
    /\ em_partial' = em_partial \o ContentOrEmpty(em_stream.chunks[em_n + 1])
    /\ em_display' = Append(em_display, em_partial')
    /\ UNCHANGED <<em_stream, em_pc, em_ret>>
    /\ UNCHANGED em_others

\* line 135: the stream is exhausted, return partial
EmReturn ==
    /\ em_pc = "stream"
    /\ em_n = Len(em_stream.chunks)
    /\ em_stream.ends
    /\ em_ret' = em_partial
    /\ em_pc' = "done"
    /\ UNCHANGED <<em_stream, em_n, em_partial, em_display>>
    /\ UNCHANGED em_others

\* line 132: chain.stream raises; stream_response has no handler
EmRaise ==
    /\ em_pc = "stream"
    /\ em_n = Len(em_stream.chunks)
    /\ ~em_stream.ends
    /\ em_pc' = "raised"
    /\ UNCHANGED <<em_stream, em_n, em_partial, em_display, em_ret>>
    /\ UNCHANGED em_others

NextEmail == EmChunk \/ EmReturn \/ EmRaise

----------------------------------------------------------------------------
(* YouTube script generator: call_ollama_api (Youtube_Script_Gen/app.py) *)

\* str(n) of a natural number
RECURSIVE StrOfNat(_)
StrOfNat(n) ==
    IF n < 10 THEN <<CHOOSE c \in Digits : DigitVal(c) = n>>
    ELSE StrOfNat(n \div 10) \o StrOfNat(n % 10)

K_response == <<"r", "e", "s", "p", "o", "n", "s", "e">>

\* lines 18-25: call_ollama_api always returns; the texts of the two
\* exceptions of line 21 stand for their str(e)
CallOllamaApi(service) ==
    IF service.refused
    THEN Return(JStr(<<"E", "r", "r", "o", "r", " ", "c", "o", "n", "n", "e", "c", "t", "i", "n", "g", " ", "t", "o", " ", "O", "l", "l", "a", "m", "a", ":", " ">> \o <<"C", "o", "n", "n", "e", "c", "t", "i", "o", "n", " ", "r", "e", "f", "u", "s", "e", "d">>))
    ELSE IF service.status = 200
    THEN LET j == JsonLoads(service.body)
         IN  IF ~j.ok THEN Return(JStr(<<"E", "r", "r", "o", "r", " ", "c", "o", "n", "n", "e", "c", "t", "i", "n", "g", " ", "t", "o", " ", "O", "l", "l", "a", "m", "a", ":", " ">> \o <<"J", "S", "O", "N", "D", "e", "c", "o", "d", "e", "E", "r", "r", "o", "r">>))
             ELSE IF ~IsObj(j.v) THEN Return(JStr(<<"E", "r", "r", "o", "r", " ", "c", "o", "n", "n", "e", "c", "t", "i", "n", "g", " ", "t", "o", " ", "O", "l", "l", "a", "m", "a", ":", " ">> \o <<"A", "t", "t", "r", "i", "b", "u", "t", "e", "E", "r", "r", "o", "r">>))
             ELSE IF K_response \in Keys(j.v) THEN Return(j.v.f[K_response])
             ELSE Return(JStr(<<"E", "r", "r", "o", "r", ":", " ", "N", "o", " ", "r", "e", "s", "p", "o", "n", "s", "e", " ", "r", "e", "c", "e", "i", "v", "e", "d">>))
    ELSE Return(JStr(<<"E", "r", "r", "o", "r", ":", " ", "A", "P", "I", " ", "r", "e", "t", "u", "r", "n", "e", "d", " ", "s", "t", "a", "t", "u", "s", " ", "c", "o", "d", "e", " ">> \o StrOfNat(service.status)))

(* Inputs *)

Refused == [refused |-> TRUE, status |-> 0, body |-> <<>>]
Answer(status, body) == [refused |-> FALSE, status |-> status, body |-> body]

ResponseBody(value) == <<"{">> \o Quoted(K_response) \o <<":">> \o value \o <<"}">>

Bodies ==
    {ResponseBody(Quoted(<<"H", "e", "l", "l", "o">>)), ResponseBody(Quoted(<<>>)),
     ResponseBody(Quoted(<<"E", "r", "r", "o", "r", ":", " ", "A", "P", "I", " ", "r", "e", "t", "u", "r", "n", "e", "d", " ", "s", "t", "a", "t", "u", "s", " ", "c", "o", "d", "e", " ", "5", "0", "0">>)),
     ResponseBody(Quoted(<<"E", "r", "r", "o", "r", ":", " ", "N", "o", " ", "r", "e", "s", "p", "o", "n", "s", "e", " ", "r", "e", "c", "e", "i", "v", "e", "d">>)),
     ResponseBody(Quoted(<<"E", "r", "r", "o", "r", " ", "c", "o", "n", "n", "e", "c", "t", "i", "n", "g", " ", "t", "o", " ", "O", "l", "l", "a", "m", "a", ":", " ", "C", "o", "n", "n", "e", "c", "t", "i", "o", "n", " ", "r", "e", "f", "u", "s", "e", "d">>)),
     ResponseBody(Quoted(<<"E", "r", "r", "o", "r", " ", "c", "o", "n", "n", "e", "c", "t", "i", "n", "g", " ", "t", "o", " ", "O", "l", "l", "a", "m", "a", ":", " ", "J", "S", "O", "N", "D", "e", "c", "o", "d", "e", "E", "r", "r", "o", "r">>)),
     ResponseBody(<<"5">>), ResponseBody(<<"n", "u", "l", "l">>),
     <<"{", "\"", "d", "o", "n", "e", "\"", ":", "t", "r", "u", "e", "}">>, <<"{", "}">>, <<"[", "1", "]">>, Quoted(<<"H", "e", "l", "l", "o">>), <<"5">>,
     <<"{", "\"", "r", "e", "s", "p", "o", "n", "s", "e", "\"", ":", "\"", "H", "e", "l">>, <<"<", "h", "t", "m", "l", ">">>, <<>>}

Statuses == {200, 201, 404, 500, 503}

YtServices == {Refused} \cup {Answer(status, body) : status \in Statuses, body \in Bodies}

\* call_ollama_api(prompt) is entered
YtInit ==
    /\ yt_service \in YtServices
    /\ yt_pc = "call"
    /\ yt_out = NoOutcome

YtIdle ==
    /\ yt_service = Refused
    /\ yt_pc = "idle"
    /\ yt_out = NoOutcome

\* lines 10-25
YtCall ==
    /\ yt_pc = "call"
    /\ yt_out' = CallOllamaApi(yt_service)
    /\ yt_pc' = "done"
    /\ UNCHANGED yt_service
    /\ UNCHANGED yt_others

NextYoutube == YtCall

----------------------------------------------------------------------------
(* Multi-agent code review: agents.py *)

\* str.format on a template whose placeholders are "{", name, "}": every
\* placeholder is replaced by the input of that name, inputs without a
\* placeholder are not used
RECURSIVE Format(_, _)
Format(template, inputs) ==
    IF template = <<>> THEN <<>>
    ELSE IF Head(template) = "{"
    THEN inputs[template[2]] \o Format(SubSeq(template, 4, Len(template)), inputs)
    ELSE <<Head(template)>> \o Format(Tail(template), inputs)

\* the names of the placeholders of a template
Placeholders(template) ==
    {template[k + 1] : k \in {k \in 1..Len(template) : template[k] = "{"}}

\* a chain of a prompt and a model: the prompt is rendered, then the model is
\* called; a placeholder without input raises before the call
ChainRun(template, inputs, llm) ==
    IF Placeholders(template) \subseteq DOMAIN inputs THEN llm ELSE Fails(<<"KeyError">>)

\* MultiAgentCodeReviewer.__init__: agent_prompts, in insertion order
AGENT_NAMES == <<"SecureBot", "SpeedDemon", "StyleGuru", "TeachBot", "ArchitectMind">>

agent_prompts ==
    [SecureBot |->
        <<"You are SecureBot, a paranoid but helpful security expert.",
          "\n            Focus on security vulnerabilities: SQL injection, XSS, authentication flaws, data exposure, input validation.",
          "\n            Rate severity: CRITICAL, HIGH, MEDIUM, LOW. Explain WHY and HOW to fix.">>,
     SpeedDemon |->
        <<"You are SpeedDemon, obsessed with performance optimization.",
          "\n            Focus on: algorithm complexity, memory usage, database efficiency, loop optimization, caching.",
          "\n            Provide measurable improvement suggestions with estimated performance gains.">>,
     StyleGuru |->
        <<"You are StyleGuru, a code aesthetics expert.",
          "\n            Focus on: naming conventions, code organization, documentation, DRY principle, best practices.",
          "\n            Suggest specific refactoring with before/after examples.">>,
     TeachBot |->
        <<"You are TeachBot, a patient mentor for beginners.",
          "\n            Focus on: step-by-step explanations, design patterns, variable clarity, learning resources.",
          "\n            Use simple language and real-world analogies.">>,
     ArchitectMind |->
        <<"You are ArchitectMind, a senior architect seeing the big picture.",
          "\n            Focus on: project structure, design patterns, scalability, maintainability, modularity.",
          "\n            Provide high-level architectural recommendations.">>]

\* CodeReviewAgent.__init__: the template of the agent's prompt
AgentTemplate(name) ==
    agent_prompts[name] \o <<"\n\nCode to review:\n", BQ, BQ, BQ, BQ, BQ, BQ, "\n\nYour review:">>

\* the prompt text self.chain.run(code=code, language=language) sends
AgentPrompt(name, code, language) ==
    Format(AgentTemplate(name), [code |-> code, language |-> language])

\* CodeReviewAgent.review_code
AgentReview(name, code, language, llm) ==
    LET run == ChainRun(AgentTemplate(name), [code |-> code, language |-> language], llm)
    IN  IF run.ok
        THEN [agent |-> name, review |-> run.text, status |-> "success"]
        ELSE [agent |-> name, review |-> <<"Error occurred: ">> \o run.text, status |-> "error"]

NoReviews == [n \in {} |-> NoOutcome]

\* reviews[agent_name] = review
SetReview(reviews, name, review) ==
    [n \in DOMAIN reviews \cup {name} |-> IF n = name THEN review ELSE reviews[n]]

Codes == {<<"a", "=", "1">>, <<"b", "=", "2">>}
Languages == {<<"Python">>, <<"Go">>}
R_review == <<"looks fine">>
AgentCalls == [1..Len(AGENT_NAMES) -> {Says(R_review), Fails(E_timeout)}]

\* MultiAgentCodeReviewer.review_code(code, language) is entered
CrInit ==
    /\ cr_code \in Codes
    /\ cr_language \in Languages
    /\ cr_llm \in AgentCalls
    /\ cr_i = 1
    /\ cr_pc = "review"
    /\ cr_prompts = <<>>
    /\ cr_reviews = NoReviews
    /\ cr_ret = NoReviews

CrIdle ==
    /\ cr_code = <<>>
    /\ cr_language = <<>>
    /\ cr_llm = <<>>
    /\ cr_i = 0
    /\ cr_pc = "idle"
    /\ cr_prompts = <<>>
    /\ cr_reviews = NoReviews
    /\ cr_ret = NoReviews

\* a loop that stops at the first agent whose model call raises
CrReview_StopOnError ==
    /\ cr_pc = "review"
    /\ cr_prompts' = Append(cr_prompts, AgentPrompt(AGENT_NAMES[cr_i], cr_code, cr_language))
    /\ cr_reviews' = SetReview(cr_reviews, AGENT_NAMES[cr_i],
                               AgentReview(AGENT_NAMES[cr_i], cr_code, cr_language, cr_llm[cr_i]))
    /\ cr_i' = cr_i + 1
    /\ cr_pc' = IF cr_i = Len(AGENT_NAMES) \/ ~cr_llm[cr_i].ok THEN "return" ELSE "review"
    /\ UNCHANGED <<cr_code, cr_language, cr_llm, cr_ret>>
    /\ UNCHANGED cr_others

\* one turn of the loop of review_code: agent.review_code, then the store
CrReview ==
    /\ cr_pc = "review"
    /\ cr_prompts' = Append(cr_prompts, AgentPrompt(AGENT_NAMES[cr_i], cr_code, cr_language))
    /\ cr_reviews' = SetReview(cr_reviews, AGENT_NAMES[cr_i],
                               AgentReview(AGENT_NAMES[cr_i], cr_code, cr_language, cr_llm[cr_i]))
    /\ cr_i' = cr_i + 1
    /\ cr_pc' = IF cr_i = Len(AGENT_NAMES) THEN "return" ELSE "review"
    /\ UNCHANGED <<cr_code, cr_language, cr_llm, cr_ret>>
    /\ UNCHANGED cr_others

\* return reviews
CrReturn ==
    /\ cr_pc = "return"
    /\ cr_ret' = cr_reviews
    /\ cr_pc' = "done"
    /\ UNCHANGED <<cr_code, cr_language, cr_llm, cr_i, cr_prompts, cr_reviews>>
    /\ UNCHANGED cr_others

NextReview == CrReview \/ CrReturn

----------------------------------------------------------------------------
(* Recipe generator: app.py *)

MaxRecipes == 3

\* line 38: the template of generate_recipe
RecipeTemplate ==
    <<"Today's date is ", "{", "date", "}", ". The user has these ingredients: ", "{", "ingredients", "}", ". ",
      "Extras in season: ", "{", "extras", "}", ". Please suggest a detailed, step-by-step recipe. ",
      "Include preparation time, servings, and cooking tips. If possible, use the seasonal extras.">>

USE_MEMORY == TRUE

\* "\n".join(items)
RECURSIVE JoinNl(_)
JoinNl(items) ==
    IF items = <<>> THEN <<>>
    ELSE IF Len(items) = 1 THEN items[1]
    ELSE items[1] \o <<"\n">> \o JoinNl(Tail(items))

\* memory = {"history": st.session_state.recipe_history} if refine else None
MemoryOf(refine, history) == IF refine THEN [history |-> history] ELSE [none |-> TRUE]

\* lines 44-47: the context dict; a memory dict is never empty
RecipeContext(ingredients, date_str, extras, memory) ==
    IF "history" \in DOMAIN memory /\ USE_MEMORY
    THEN [date |-> date_str, ingredients |-> ingredients, extras |-> extras,
          history |-> JoinNl(memory.history)]
    ELSE [date |-> date_str, ingredients |-> ingredients, extras |-> extras]

\* generate_recipe: chain.invoke(context)
GenerateRecipe(ingredients, date_str, extras, memory, llm) ==
    ChainRun(RecipeTemplate, RecipeContext(ingredients, date_str, extras, memory), llm)

Ingredients == {<<"rice">>, <<"chicken", ", ", "rice">>}
D_may == <<"May 01, 2025">>
Extras == {<<"In season: ", "peas">>, <<"No specific seasonal produce found for this month.">>}
Recipes == {<<"boil it">>, <<"fry it">>}

RcInit ==
    /\ rc_history = <<>>
    /\ rc_n = 0
    /\ rc_context = [none |-> TRUE]
    /\ rc_prompt = <<>>
    /\ rc_out = NoOutcome

RcIdle ==
    /\ rc_history = <<>>
    /\ rc_n = MaxRecipes
    /\ rc_context = [none |-> TRUE]
    /\ rc_prompt = <<>>
    /\ rc_out = NoOutcome

\* main: the Generate Recipe button with ingredients entered
RcGenerate ==
    /\ rc_n < MaxRecipes
    /\ \E refine \in BOOLEAN, ingredients \in Ingredients, extras \in Extras,
          llm \in {Says(r) : r \in Recipes} \cup {Fails(E_timeout)} :
          LET memory == MemoryOf(refine, rc_history)
              out == GenerateRecipe(ingredients, D_may, extras, memory, llm)
          IN  /\ rc_context' = RecipeContext(ingredients, D_may, extras, memory)
              /\ rc_prompt' = Format(RecipeTemplate, RecipeContext(ingredients, D_may, extras, memory))
              /\ rc_out' = IF out.ok THEN Return(out.text) ELSE Raise(out.text)
              /\ rc_history' = IF out.ok /\ refine THEN Append(rc_history, out.text) ELSE rc_history
    /\ rc_n' = rc_n + 1
    /\ UNCHANGED rc_others

NextRecipe == RcGenerate

----------------------------------------------------------------------------
(* Chat clone: app.py *)

MaxSubmits == 3

None == [created |-> FALSE]

\* lines 39-51: the chain made from model_name and base_url, with an empty
\* ConversationBufferMemory; id tells the constructions apart
ConversationChain(id, model_name, base_url) ==
    [created |-> TRUE, id |-> id, model |-> model_name, base_url |-> base_url, memory |-> <<>>]

M_connect == <<"Sorry, I'm having trouble connecting to the Ollama service. Please make sure Ollama is running.">>
M_generate == <<"Sorry, I encountered an error while generating a response.">>

ChatInputs == {<<"hi">>, <<"bye">>}
ChatModels == {"llama2", "mistral"}
ChatUrls == {"http://localhost:11434"}
ChatReplies == {<<"yes">>, <<"no">>}

\* the session state of lines 9-14
ChInit ==
    /\ ch_messages = <<>>
    /\ ch_conversation = None
    /\ ch_pc = "idle"
    /\ ch_input = <<>>
    /\ ch_model = "llama2"
    /\ ch_url = "http://localhost:11434"
    /\ ch_reply = <<>>
    /\ ch_n = 0
    /\ ch_attempts = 0
    /\ ch_calls = <<>>

ChIdle ==
    /\ ch_messages = <<>>
    /\ ch_conversation = None
    /\ ch_pc = "off"
    /\ ch_input = <<>>
    /\ ch_model = "llama2"
    /\ ch_url = "http://localhost:11434"
    /\ ch_reply = <<>>
    /\ ch_n = 0
    /\ ch_attempts = 0
    /\ ch_calls = <<>>

\* lines 72-74: the form is submitted; an empty input is not handled
ChSubmit ==
    /\ ch_pc = "idle"
    /\ ch_n < MaxSubmits
    /\ \E user_input \in ChatInputs \cup {<<>>}, model \in ChatModels, url \in ChatUrls :
          IF user_input = <<>>
          THEN UNCHANGED <<ch_messages, ch_pc, ch_input, ch_model, ch_url>>
          ELSE /\ ch_messages' = Append(ch_messages, user_input)
               /\ ch_input' = user_input
               /\ ch_model' = model
               /\ ch_url' = url
               /\ ch_pc' = "get"
    /\ UNCHANGED <<ch_conversation, ch_reply, ch_n, ch_attempts, ch_calls>>
    /\ UNCHANGED ch_others

\* lines 36-54: no chain yet; it is constructed, or the construction raises
\* and getresponse returns the connection message
ChCreate ==
    /\ ch_pc = "get"
    /\ ch_conversation = None
    /\ ch_attempts' = ch_attempts + 1
    /\ \E constructed \in BOOLEAN :
          IF constructed
          THEN /\ ch_conversation' = ConversationChain(ch_attempts + 1, ch_model, ch_url)
               /\ UNCHANGED <<ch_pc, ch_reply, ch_calls>>
          ELSE /\ ch_reply' = M_connect
               /\ ch_calls' = Append(ch_calls, [input |-> ch_input, reply |-> M_connect])
               /\ ch_pc' = "reply"
               /\ UNCHANGED ch_conversation
    /\ UNCHANGED <<ch_messages, ch_input, ch_model, ch_url, ch_n>>
    /\ UNCHANGED ch_others

\* a getresponse that lets the exception of predict out: the script run ends
ChPredict_Raises ==
    /\ ch_pc = "get"
    /\ ch_conversation # None
    /\ \E answered \in BOOLEAN, response \in ChatReplies :
          IF answered
          THEN /\ ch_conversation' =
                      [ch_conversation EXCEPT !.memory = Append(@, <<ch_input, response>>)]
               /\ ch_reply' = response
               /\ ch_calls' = Append(ch_calls, [input |-> ch_input, reply |-> response])
               /\ ch_pc' = "reply"
               /\ UNCHANGED ch_n
          ELSE /\ ch_pc' = "idle"
               /\ ch_n' = ch_n + 1
               /\ UNCHANGED <<ch_conversation, ch_reply, ch_calls>>
    /\ UNCHANGED <<ch_messages, ch_input, ch_model, ch_url, ch_attempts>>
    /\ UNCHANGED ch_others

\* a getresponse that builds a new chain when model_name is not the model of
\* the chain in the session
ChPredict_Recreate ==
    /\ ch_pc = "get"
    /\ ch_conversation # None
    /\ \E answered \in BOOLEAN, response \in ChatReplies :
          LET chain == IF ch_conversation.model = ch_model THEN ch_conversation
                       ELSE ConversationChain(ch_attempts + 1, ch_model, ch_url)
          IN  IF answered
              THEN /\ ch_conversation' = [chain EXCEPT !.memory = Append(@, <<ch_input, response>>)]
                   /\ ch_reply' = response
                   /\ ch_calls' = Append(ch_calls, [input |-> ch_input, reply |-> response])
              ELSE /\ ch_reply' = M_generate
                   /\ ch_calls' = Append(ch_calls, [input |-> ch_input, reply |-> M_generate])
                   /\ ch_conversation' = chain
    /\ ch_pc' = "reply"
    /\ UNCHANGED <<ch_messages, ch_input, ch_model, ch_url, ch_n, ch_attempts>>
    /\ UNCHANGED ch_others

\* lines 56-62: predict on the chain of the session; it answers and the memory
\* keeps the exchange, or it raises and getresponse returns the error message
ChPredict ==
    /\ ch_pc = "get"
    /\ ch_conversation # None
    /\ \E answered \in BOOLEAN, response \in ChatReplies :
          IF answered
          THEN /\ ch_conversation' =
                      [ch_conversation EXCEPT !.memory = Append(@, <<ch_input, response>>)]
               /\ ch_reply' = response
               /\ ch_calls' = Append(ch_calls, [input |-> ch_input, reply |-> response])
          ELSE /\ ch_reply' = M_generate
               /\ ch_calls' = Append(ch_calls, [input |-> ch_input, reply |-> M_generate])
               /\ UNCHANGED ch_conversation
    /\ ch_pc' = "reply"
    /\ UNCHANGED <<ch_messages, ch_input, ch_model, ch_url, ch_n, ch_attempts>>
    /\ UNCHANGED ch_others

\* line 75: the returned value is appended and the script run ends
ChAppend ==
    /\ ch_pc = "reply"
    /\ ch_messages' = Append(ch_messages, ch_reply)
    /\ ch_n' = ch_n + 1
    /\ ch_pc' = "idle"
    /\ UNCHANGED <<ch_conversation, ch_input, ch_model, ch_url, ch_reply, ch_attempts, ch_calls>>
    /\ UNCHANGED ch_others

NextChat == ChSubmit \/ ChCreate \/ ChPredict \/ ChAppend

----------------------------------------------------------------------------
(* Text-to-SQL: app.py *)

MaxQuestions == 2

Q_count == <<"SELECT COUNT(*) FROM employees">>
Q_names == <<"SELECT name FROM employees">>
Q_typo == <<"SELEC name FROM employees">>

\* QuerySQLDataBaseTool: the rows of the query as text, or the text of the
\* database error; it does not raise
RunQuery(query) ==
    IF query = Q_count THEN <<"[(5,)]">>
    ELSE IF query = Q_names THEN <<"[('Ann',), ('Bob',)]">>
    ELSE <<"Error: (sqlite3.OperationalError) near ", query[1]>>

NoReturn == [none |-> TRUE, sql |-> <<>>, result |-> <<>>]

Questions == {<<"How many employees?">>, <<"Who works here?">>}
SqlAnswers == {Says(Q_count), Says(Q_names), Says(Q_typo), Fails(E_timeout)}

SqInit ==
    /\ sq_pc = "idle"
    /\ sq_question = <<>>
    /\ sq_sql = <<>>
    /\ sq_executed = <<>>
    /\ sq_ret = NoReturn
    /\ sq_history = <<>>
    /\ sq_n = 0

SqIdle ==
    /\ sq_pc = "off"
    /\ sq_question = <<>>
    /\ sq_sql = <<>>
    /\ sq_executed = <<>>
    /\ sq_ret = NoReturn
    /\ sq_history = <<>>
    /\ sq_n = 0

\* main, line 233: Submit Query with a question entered
SqSubmit ==
    /\ sq_pc = "idle"
    /\ sq_n < MaxQuestions
    /\ \E question \in Questions : sq_question' = question
    /\ sq_pc' = "write"
    /\ sq_ret' = NoReturn
    /\ sq_sql' = <<>>
    /\ UNCHANGED <<sq_executed, sq_history, sq_n>>
    /\ UNCHANGED sq_others

\* line 157: sql_query = write_query.invoke({"question": question}); an
\* exception is caught on line 164
SqWrite ==
    /\ sq_pc = "write"
    /\ \E llm \in SqlAnswers :
          IF llm.ok
          THEN /\ sq_sql' = llm.text
               /\ sq_pc' = "chain"
               /\ UNCHANGED sq_ret
          ELSE /\ sq_ret' = [none |-> TRUE, sql |-> <<>>, result |-> <<"Error: ">> \o llm.text]
               /\ sq_pc' = "show"
               /\ UNCHANGED sq_sql
    /\ UNCHANGED <<sq_question, sq_executed, sq_history, sq_n>>
    /\ UNCHANGED sq_others

\* line 160: result = chain.invoke({"question": question}): write_query asks
\* the model again and execute_query runs that answer; then line 162 returns
SqChain ==
    /\ sq_pc = "chain"
    /\ \E llm \in SqlAnswers :
          IF llm.ok
          THEN /\ sq_executed' = Append(sq_executed, llm.text)
               /\ sq_ret' = [none |-> FALSE, sql |-> sq_sql, result |-> RunQuery(llm.text)]
          ELSE /\ sq_ret' = [none |-> TRUE, sql |-> <<>>, result |-> <<"Error: ">> \o llm.text]
               /\ UNCHANGED sq_executed
    /\ sq_pc' = "show"
    /\ UNCHANGED <<sq_question, sq_sql, sq_history, sq_n>>
    /\ UNCHANGED sq_others

\* main, lines 237-265: the query and the result are shown and appended to
\* the chat history when sql_query is not None
SqShow ==
    /\ sq_pc = "show"
    /\ sq_history' = IF ~sq_ret.none /\ sq_ret.sql # <<>>
                     THEN Append(sq_history, [question |-> sq_question, sql |-> sq_ret.sql,
                                              result |-> sq_ret.result])
                     ELSE sq_history
    /\ sq_n' = sq_n + 1
    /\ sq_pc' = "idle"
    /\ UNCHANGED <<sq_question, sq_sql, sq_executed, sq_ret>>
    /\ UNCHANGED sq_others

NextSql == SqSubmit \/ SqWrite \/ SqChain \/ SqShow

----------------------------------------------------------------------------
(* Specifications *)

InitInvoice == InvInit /\ McqIdle /\ HrIdle /\ TkIdle /\ EmIdle /\ YtIdle /\ CrIdle /\ RcIdle /\ ChIdle /\ SqIdle
SpecInvoice == InitInvoice /\ [][NextInvoice]_vars

InitMcq == McqInit /\ InvIdle /\ HrIdle /\ TkIdle /\ EmIdle /\ YtIdle /\ CrIdle /\ RcIdle /\ ChIdle /\ SqIdle
SpecMcq == InitMcq /\ [][NextMcq]_vars
InitReview == CrInit /\ InvIdle /\ McqIdle /\ HrIdle /\ TkIdle /\ EmIdle /\ YtIdle /\ RcIdle /\ ChIdle /\ SqIdle
SpecReview == InitReview /\ [][NextReview]_vars
InitRecipe == RcInit /\ InvIdle /\ McqIdle /\ HrIdle /\ TkIdle /\ EmIdle /\ YtIdle /\ CrIdle /\ ChIdle /\ SqIdle
SpecRecipe == InitRecipe /\ [][NextRecipe]_vars

\* the two programs that render a prompt template
InitPrompts == (InitReview \/ InitRecipe)
NextPrompts == NextReview \/ NextRecipe
SpecPrompts == InitPrompts /\ [][NextPrompts]_vars
InitChat == ChInit /\ InvIdle /\ McqIdle /\ HrIdle /\ TkIdle /\ EmIdle /\ YtIdle /\ CrIdle /\ RcIdle /\ SqIdle
SpecChat == InitChat /\ [][NextChat]_vars
InitSql == SqInit /\ InvIdle /\ McqIdle /\ HrIdle /\ TkIdle /\ EmIdle /\ YtIdle /\ CrIdle /\ RcIdle /\ ChIdle
SpecSql == InitSql /\ [][NextSql]_vars

\* both response parsers run on the same model response
InitRecover ==
    /\ McqInit
    /\ InvStart(MakeFiles(<<<<PdfOk, LlmSays(mcq_resp.pre, mcq_resp.core, mcq_resp.post)>>>>))
    /\ HrIdle
    /\ TkIdle
    /\ EmIdle
    /\ YtIdle
    /\ CrIdle
    /\ RcIdle
    /\ ChIdle
    /\ SqIdle
NextRecover == NextInvoice \/ NextMcq
SpecRecover == InitRecover /\ [][NextRecover]_vars

InitResume == HrInit /\ InvIdle /\ McqIdle /\ TkIdle /\ EmIdle /\ YtIdle /\ CrIdle /\ RcIdle /\ ChIdle /\ SqIdle
SpecResume == InitResume /\ [][NextResume]_vars

InitTicket == TkInit /\ InvIdle /\ McqIdle /\ HrIdle /\ EmIdle /\ YtIdle /\ CrIdle /\ RcIdle /\ ChIdle /\ SqIdle
SpecTicket == InitTicket /\ [][NextTicket]_vars

InitEmail == EmInit /\ InvIdle /\ McqIdle /\ HrIdle /\ TkIdle /\ YtIdle /\ CrIdle /\ RcIdle /\ ChIdle /\ SqIdle
SpecEmail == InitEmail /\ [][NextEmail]_vars

InitYoutube == YtInit /\ InvIdle /\ McqIdle /\ HrIdle /\ TkIdle /\ EmIdle /\ CrIdle /\ RcIdle /\ ChIdle /\ SqIdle
SpecYoutube == InitYoutube /\ [][NextYoutube]_vars

\* a run of the invoice batch or a run of the resume batch
InitItems == (InitInvoice \/ InitResume)
NextItems == NextInvoice \/ NextResume
SpecItems == InitItems /\ [][NextItems]_vars

\* a run of the invoice batch or a run of the ticket batch
InitBatch == (InitInvoice \/ InitTicket)
NextBatch == NextInvoice \/ NextTicket
SpecBatch == InitBatch /\ [][NextBatch]_vars

----------------------------------------------------------------------------
(* Invoice extractor: properties *)

\* the parsing step has just run for the current file
InvParsed == inv_pc = "append" /\ inv_tier # "none"

InvRaising == {k \in 1..Len(inv_files) : ~ExtractInvoiceData(inv_files[k]).ok}

\* C1: in a batch where extraction of exactly one file k raises, the returned
\* list has one entry per file, entry k is the error record of file k, and
\* every other entry is what extract_invoice_data returns for that file on
\* its own (carrying the file's name)
C1_BatchIsolation ==
    (inv_pc = "done" /\ Cardinality(InvRaising) = 1) =>
        /\ Len(inv_results) = Len(inv_files)
        /\ \A i \in 1..Len(inv_files) :
              LET file == inv_files[i]
                  out == ExtractInvoiceData(file)
              IN  IF ~out.ok THEN inv_results[i] = ErrorRecord(file.name, out.msg)
                  ELSE inv_results[i] =
                           (IF IsObj(out.v) THEN SetKey(out.v, K_filename, JStr(file.name)) ELSE out.v)

----------------------------------------------------------------------------
(* Recovered-substring tier: properties (both parsers on one response) *)

\* the response is a valid JSON object between a leading and a trailing text
ObjectInProse == JsonLoads(mcq_resp.core).ok /\ IsObj(JsonLoads(mcq_resp.core).v)

\* the strict parse of the isolated object
IsolatedRecord == JsonLoads(mcq_resp.core).v

\* C10: whatever text surrounds a valid JSON object, the recovered-substring
\* tier of both parsers returns the strict parse of the isolated object
C10_RecoversEmbeddedObject ==
    /\ (mcq_pc = "done" /\ ObjectInProse) => mcq_data = Return(IsolatedRecord)
    /\ (InvParsed /\ inv_tier = "recovered" /\ ObjectInProse) => inv_out = Return(IsolatedRecord)

----------------------------------------------------------------------------
(* Resume screener: properties *)

\* the completion call for resume k is made, and fails
HrCompletionFails(k) == ExtractResumeText(hr_files[k]) # <<>> /\ ~hr_files[k].analysis.ok

\* the completion call for resume k is made, and answers
HrCompletionAnswers(k) == ExtractResumeText(hr_files[k]) # <<>> /\ hr_files[k].analysis.ok

HrEntriesOf(k) == {hr_ret[j] : j \in {i \in 1..Len(hr_ret) : hr_ret[i].filename = hr_files[k].name}}

IsScoredResult(e) ==
    DOMAIN e = {"filename", "score", "recommendation", "analysis", "key_info", "resume_text"}

IsCompletionFailure(e) ==
    /\ "stage" \in DOMAIN e
    /\ "score" \notin DOMAIN e
    /\ e.stage = "COMPLETION"

\* C2: when the completion call for resume k fails, the batch is not aborted
\* and the entry of resume k is a failure record for the COMPLETION stage,
\* not a scored result; the entries of the other resumes are scored results
C2_CompletionFailureRecorded ==
    hr_pc = "done" =>
        \A k \in 1..Len(hr_files) :
            /\ HrCompletionFails(k) =>
                   HrEntriesOf(k) # {} /\ \A e \in HrEntriesOf(k) : IsCompletionFailure(e)
            /\ HrCompletionAnswers(k) =>
                   HrEntriesOf(k) # {} /\ \A e \in HrEntriesOf(k) : IsScoredResult(e)

\* C3: the returned list has exactly one entry for every input resume file,
\* also for a resume whose text extraction failed or gave empty text
C3_OneEntryPerResume ==
    hr_pc = "done" =>
        /\ Len(hr_ret) = Len(hr_files)
        /\ \A k \in 1..Len(hr_files) : Cardinality(HrEntriesOf(k)) = 1

\* C5: for every analysis text, parse_score_from_analysis returns an integer
\* in the score range 1..10
C5_ScoreInRange ==
    \A j \in 1..Len(hr_results) :
        /\ hr_results[j].score = parse_score_from_analysis(hr_results[j].analysis)
        /\ hr_results[j].score \in 1..10

\* C6: for every analysis text, parse_recommendation_from_analysis returns a
\* member of {HIRE, INTERVIEW, REJECT, REVIEW}
C6_RecommendationInLabelSet ==
    \A j \in 1..Len(hr_results) :
        /\ hr_results[j].recommendation = parse_recommendation_from_analysis(hr_results[j].analysis)
        /\ hr_results[j].recommendation \in {HIRE, INTERVIEW, REJECT, REVIEW}

----------------------------------------------------------------------------
(* Ticket classifier: properties *)

\* C4: an error classify_text raises for a row is caught and recorded for
\* that row only: the batch run is never aborted, and it ends with one
\* result per row
C4_RowErrorIsCaught ==
    /\ tk_pc # "aborted"
    /\ tk_pc = "done" => Len(tk_column) = Len(tk_rows)

\* C7: every value classify_text returns is a member of CATEGORIES, whatever
\* the content of the model's answer
C7_LabelInCategories ==
    /\ \A j \in 1..Len(tk_results) : tk_results[j] \in CategorySet
    /\ tk_i > 1 => tk_label \in CategorySet
    /\ \A j \in 1..Len(tk_column) : tk_column[j] \in CategorySet

\* a batch of four answers: a known category, an unknown one, JSON that is
\* no object, and text that is no JSON
C7_Witness ==
    /\ tk_pc = "done"
    /\ Len(tk_rows) = 4
    /\ tk_rows[1] = Answers(TkObj(K_category, Quoted(BILLING)))
    /\ tk_rows[2] = Answers(TkObj(K_category, Quoted(<<"S", "P", "A", "M">>)))
    /\ tk_rows[3] = Answers(<<"[">> \o Quoted(BILLING) \o <<"]">>)
    /\ tk_rows[4] = Answers(<<"n", "o", " ", "i", "d", "e", "a">>)
    /\ tk_column = <<BILLING, OTHER_LABEL, BILLING, OTHER_LABEL>>

\* position of the returned entry e in the results list before the sort
HrInputPos(e) == CHOOSE j \in 1..Len(hr_results) : hr_results[j] = e

\* C11: the returned list holds the results by score descending, two results
\* of equal score in their input order, and sorting the returned list again
\* by the same key gives the same list
C11_StableRanking ==
    hr_pc = "done" =>
        /\ Len(hr_ret) = Len(hr_results)
        /\ \A j \in 1..Len(hr_results) : \E a \in 1..Len(hr_ret) : hr_ret[a] = hr_results[j]
        /\ \A a, b \in 1..Len(hr_ret) :
               a < b => /\ hr_ret[a].score >= hr_ret[b].score
                        /\ hr_ret[a].score = hr_ret[b].score =>
                               HrInputPos(hr_ret[a]) < HrInputPos(hr_ret[b])
        /\ SortByScore(hr_ret) = hr_ret

\* three results, the first and the third of equal score above the second
C11_Witness ==
    /\ hr_pc = "done"
    /\ Len(hr_results) = 3
    /\ hr_results[1].score = hr_results[3].score
    /\ hr_results[2].score < hr_results[1].score
    /\ hr_ret = <<hr_results[1], hr_results[3], hr_results[2]>>

----------------------------------------------------------------------------
(* Batch order: properties (invoice batch and ticket batch) *)

\* C12: results are appended in input order: the i-th entry of the invoice
\* batch is the record or error of the i-th file, the i-th predicted category
\* is the label of the i-th CSV row, and the items are processed in input order
C12_InputOrder ==
    /\ \A i \in 1..Len(inv_results) :
           /\ inv_results[i] = BatchEntry(inv_files[i], ExtractInvoiceData(inv_files[i]))
           /\ inv_results[i].f[K_filename] = JStr(inv_files[i].name)
    /\ inv_pc \notin {"idle", "done"} => Len(inv_results) = inv_i - 1
    /\ inv_pc = "done" => Len(inv_results) = Len(inv_files)
    /\ \A a, b \in 1..Len(inv_log) : a < b => inv_log[a][1] <= inv_log[b][1]
    /\ \A j \in 1..Len(tk_results) : tk_results[j] = LabelOfContent(tk_rows[j].content)
    /\ tk_pc = "classify" => Len(tk_results) = tk_i - 1
    /\ tk_pc = "done" =>
           tk_column = [j \in 1..Len(tk_rows) |-> LabelOfContent(tk_rows[j].content)]

\* a finished invoice batch of three files: an error, a record, an error
C12_Witness ==
    /\ inv_pc = "done"
    /\ Len(inv_files) = 3
    /\ K_error \in Keys(inv_results[1])
    /\ inv_results[2] = SetKey(JsonLoads(S_objEmail).v, K_filename, JStr(FileName(2)))
    /\ inv_results[3] = ErrorRecord(FileName(3), <<"Error processing invoice: ", "ConnectionError">>)

----------------------------------------------------------------------------
(* Invoice batch: failure records and summary *)

K_stage == <<"s", "t", "a", "g", "e">>

STAGES == {JStr(<<"TEXT_EXTRACTION">>), JStr(<<"COMPLETION">>), JStr(<<"PARSING">>)}

\* C13: every failure record of the batch names the file and the stage at
\* which it failed, one of TEXT_EXTRACTION, COMPLETION, PARSING; a failed
\* completion call gives a record with stage COMPLETION
C13_FailureNamesStage ==
    \A i \in 1..Len(inv_results) :
        K_error \in Keys(inv_results[i]) =>
            /\ inv_results[i].f[K_filename] = JStr(inv_files[i].name)
            /\ K_stage \in Keys(inv_results[i])
            /\ inv_results[i].f[K_stage] \in STAGES
            /\ (TextStage(inv_files[i]).ok /\ ~CompletionStage(inv_files[i]).ok) =>
                   inv_results[i].f[K_stage] = JStr(<<"COMPLETION">>)

\* files for which extract_invoice_data returns a record
InvReturningRecord ==
    {k \in 1..Len(inv_files) :
        ExtractInvoiceData(inv_files[k]).ok /\ IsObj(ExtractInvoiceData(inv_files[k]).v)}

\* C14: Successful + Failed is the number of results, Failed is the number of
\* files whose extraction raised, Successful the number of files for which
\* extract_invoice_data returned a record, whatever its keys
C14_SummaryCounts ==
    inv_pc = "shown" =>
        /\ inv_summary.total = Len(inv_files)
        /\ inv_summary.successful + inv_summary.failed = inv_summary.total
        /\ inv_summary.failed = Cardinality(InvRaising)
        /\ inv_summary.successful = Cardinality(InvReturningRecord)

----------------------------------------------------------------------------
(* Resume screener: progress *)

\* the log positions before position a at which an item's processing began
HrProcessedBefore(a) == {b \in 1..(a - 1) : hr_log[b][2] = "text"}

\* C15: the progress event of item i is emitted after item i has been
\* processed, and the reported fraction is (items processed so far) / (total)
C15_ProgressAfterItem ==
    /\ \A a \in 1..Len(hr_log) :
           hr_log[a][2] = "progress" =>
               /\ \E b \in 1..(a - 1) : hr_log[b] = <<hr_log[a][1], "text">>
               /\ hr_log[a][1] = Cardinality(HrProcessedBefore(a))
    /\ \A k \in 1..Len(hr_progress) :
           hr_progress[k] = <<k, Len(hr_files)>>

----------------------------------------------------------------------------
(* Email rewriter: properties *)

\* the chunks' texts put together in arrival order
RECURSIVE ChunksText(_)
ChunksText(chunks) ==
    IF chunks = <<>> THEN <<>>
    ELSE ContentOrEmpty(Head(chunks)) \o ChunksText(Tail(chunks))

IsPrefix(p, t) == Len(p) <= Len(t) /\ SubSeq(t, 1, Len(p)) = p

\* C16: after each chunk the displayed partial text is the concatenation of
\* the chunks received so far, every displayed partial is a prefix of the
\* final text, and the returned text is the concatenation of all chunks
C16_ChunksConcatenated ==
    /\ Len(em_display) = em_n
    /\ \A k \in 1..Len(em_display) :
           /\ em_display[k] = ChunksText(SubSeq(em_stream.chunks, 1, k))
           /\ IsPrefix(em_display[k], ChunksText(em_stream.chunks))
    /\ em_pc = "done" =>
           /\ em_ret = ChunksText(em_stream.chunks)
           /\ \A k \in 1..Len(em_display) : IsPrefix(em_display[k], em_ret)

\* three chunks, one of them without content, have been shown and returned
C16_Witness ==
    /\ em_pc = "done"
    /\ em_stream.chunks = <<Chunk(<<"H", "i">>), ChunkWithoutContent, Chunk(<<"!">>)>>
    /\ em_display = <<<<"H", "i">>, <<"H", "i">>, <<"H", "i", "!">>>>
    /\ em_ret = <<"H", "i", "!">>

----------------------------------------------------------------------------
(* YouTube script generator: properties *)

\* the service answered 200 with a JSON object that holds a response
ServiceCompleted(service) ==
    /\ ~service.refused
    /\ service.status = 200
    /\ JsonLoads(service.body).ok
    /\ IsObj(JsonLoads(service.body).v)
    /\ K_response \in Keys(JsonLoads(service.body).v)

\* what call_ollama_api returns for the completions of the service
Completions == {CallOllamaApi(service) : service \in {x \in YtServices : ServiceCompleted(x)}}

\* C17: when the service fails (connection refused, status other than 200,
\* malformed or incomplete body) the outcome of call_ollama_api is an error
\* outcome, one that no successfully returned completion text equals
C17_FailureDistinguishable ==
    (yt_pc = "done" /\ ~ServiceCompleted(yt_service)) =>
        /\ yt_out \notin Completions
        /\ ~yt_out.ok

----------------------------------------------------------------------------
(* Stages of one item: properties (invoice batch and resume batch) *)

\* the stage event <<i, stage>> occurs in log before position a
Earlier(log, a, i, stage) == \E b \in 1..(a - 1) : log[b] = <<i, stage>>

\* number of stage events <<i, stage>> in log
Times(log, i, stage) == Cardinality({a \in 1..Len(log) : log[a] = <<i, stage>>})

\* C18: for every item the stages run forward and a failure ends the item:
\* the completion call comes only after text extraction returned non-empty
\* text, parsing only after the completion call returned, and no stage runs
\* for an item after one of its stages failed
C18_StagesForwardFailureTerminal ==
    /\ \A a \in 1..Len(inv_log) :
           LET i == inv_log[a][1]
           IN  /\ inv_log[a][2] = "complete" =>
                      Earlier(inv_log, a, i, "text") /\ TextStage(inv_files[i]).ok
               /\ inv_log[a][2] = "parse" =>
                      Earlier(inv_log, a, i, "complete") /\ CompletionStage(inv_files[i]).ok
    /\ \A a \in 1..Len(hr_log) :
           LET i == hr_log[a][1]
           IN  /\ hr_log[a][2] = "analyze" =>
                      Earlier(hr_log, a, i, "text") /\ ExtractResumeText(hr_files[i]) # <<>>
               /\ hr_log[a][2] = "keyinfo" =>
                      Earlier(hr_log, a, i, "analyze") /\ hr_files[i].analysis.ok
               /\ hr_log[a][2] = "append" =>
                      /\ Earlier(hr_log, a, i, "keyinfo")
                      /\ hr_files[i].analysis.ok
                      /\ hr_files[i].extraction.ok

\* C19: within one batch run the completion client is called at most once
\* per item and per prompt, whether or not the call or the parse fails, and
\* no stage of an item runs twice
C19_NoRetry ==
    /\ \A i \in 1..Len(inv_files) :
           \A stage \in {"text", "complete", "parse", "append"} : Times(inv_log, i, stage) <= 1
    /\ \A i \in 1..Len(hr_files) :
           \A stage \in {"text", "analyze", "keyinfo", "append"} : Times(hr_log, i, stage) <= 1
    /\ inv_pc \in {"done", "shown"} =>
           \A i \in 1..Len(inv_files) :
               Times(inv_log, i, "complete") = (IF TextStage(inv_files[i]).ok THEN 1 ELSE 0)
    /\ hr_pc = "done" =>
           \A i \in 1..Len(hr_files) :
               /\ Times(hr_log, i, "analyze") = (IF ExtractResumeText(hr_files[i]) # <<>> THEN 1 ELSE 0)
               /\ Times(hr_log, i, "keyinfo") = Times(hr_log, i, "analyze")

\* a finished invoice batch in which the call failed for the first file and
\* the response of the second did not parse
C19_Witness ==
    /\ inv_pc = "done"
    /\ Len(inv_files) = 3
    /\ TextStage(inv_files[1]).ok /\ ~CompletionStage(inv_files[1]).ok
    /\ CompletionStage(inv_files[2]).ok /\ ~ExtractInvoiceData(inv_files[2]).ok
    /\ ExtractInvoiceData(inv_files[3]).ok
    /\ Times(inv_log, 1, "complete") = 1
    /\ Times(inv_log, 2, "complete") = 1
    /\ Times(inv_log, 2, "parse") = 1

----------------------------------------------------------------------------
(* Invoice extractor: fenced responses *)

\* an opening fence: bare, followed by a newline, or by a language tag
OpeningFences == {Fence, FenceNl, Fence \o <<"j", "s", "o", "n", "\n">>}

\* a closing fence, alone or after a newline
ClosingFences == {Fence, <<"\n">> \o Fence}

\* C20: a response that is a well-formed JSON object between one opening and
\* one closing code fence has the two fences stripped, and the record
\* returned is the JSON object between the fences
C20_FencedObjectReturned ==
    InvParsed =>
        LET llm == inv_files[inv_i].llm
        IN  (/\ llm.pre \in OpeningFences
             /\ llm.post \in ClosingFences
             /\ JsonLoads(llm.core).ok
             /\ IsObj(JsonLoads(llm.core).v)) =>
                /\ inv_out = Return(JsonLoads(llm.core).v)
                /\ llm.pre # Fence \o <<"j", "s", "o", "n", "\n">> =>
                       CleanResponse(inv_resp) \in {llm.core, llm.core \o <<"\n">>}

----------------------------------------------------------------------------
(* Invoice extractor: order of the parse tiers *)

\* the whole trimmed response is a well-formed JSON object
WholeObject(response) == JsonLoads(Strip(response)).ok /\ IsObj(JsonLoads(Strip(response)).v)

\* C21: when the whole trimmed response is a well-formed JSON object, the
\* strict parse returns a record equal to it and the recovered-substring tier
\* is not consulted; that tier decides only after the strict parse failed
C21_StrictParseFirst ==
    InvParsed =>
        /\ WholeObject(inv_resp) =>
               inv_tier = "strict" /\ inv_out = Return(JsonLoads(Strip(inv_resp)).v)
        /\ inv_tier = "recovered" => ~JsonLoads(CleanResponse(inv_resp)).ok
        /\ inv_tier = "strict" => inv_out = Return(JsonLoads(CleanResponse(inv_resp)).v)

\* a nested object between blanks, returned by the strict parse
C21_Witness ==
    /\ InvParsed
    /\ inv_files[inv_i].llm.core = S_objNested
    /\ inv_resp # S_objNested
    /\ WholeObject(inv_resp)
    /\ inv_tier = "strict"
    /\ inv_out = Return(JsonLoads(S_objNested).v)

----------------------------------------------------------------------------
(* MCQ maker: segmentation of parse_text_response *)

\* the lines of the response, stripped, without the empty ones
McqLines ==
    LET ls == SplitLines(PartsText(mcq_resp))
    IN  SelectSeq([k \in 1..Len(ls) |-> Strip(ls[k])], LAMBDA l : l # <<>>)

\* positions of the lines that start an item
QuestionPositions ==
    {k \in 1..Len(McqLines) : Positions(McqLines[k], "?") # {} /\ ~IsOptionLine(McqLines[k])}

\* the option lines between question position q and the next question line
OptionsAfter(q) ==
    LET next == MinOf({k \in QuestionPositions : k > q} \cup {Len(McqLines) + 1})
    IN  SelectSeq(SubSeq(McqLines, q + 1, next - 1), LAMBDA l : IsOptionLine(l))

\* the question positions that have at least one option, in input order
EmittedPositions ==
    LET S == {q \in QuestionPositions : OptionsAfter(q) # <<>>}
    IN  [i \in 1..Cardinality(S) |-> CHOOSE q \in S : Cardinality({p \in S : p < q}) = i - 1]

----------------------------------------------------------------------------
(* Resume screener: the order of the score patterns *)

\* the positions j..k, k >= j, such that s[j..k] are all digits
DigitRunEnds(s, j) == {k \in j..Len(s) : \A m \in j..k : s[m] \in Digits}

\* the positions reachable from position a by skipping at least min
\* characters of the set gap
GapEnds(s, a, gap, min) == {j \in (a + min)..(Len(s) + 1) : \A m \in a..(j - 1) : s[m] \in gap}

\* the matches <<start, group start, group end>> of each pattern, as sets
MatchesMatchScore(s) ==
    UNION {UNION {{<<i, j, k>> : k \in DigitRunEnds(s, j)} : j \in GapEnds(s, i + 12, WS, 0)} :
           i \in {i \in 1..Len(s) : MatchAt(s, i, <<"M", "A", "T", "C", "H", " ", "S", "C", "O", "R", "E", ":">>)}}

MatchesScoreWord(s) ==
    UNION {UNION {{<<i, j, k>> : k \in DigitRunEnds(s, j)} : j \in GapEnds(s, i + 5, WS \cup {":"}, 1)} :
           i \in {i \in 1..Len(s) : MatchAtCI(s, i, <<"s", "c", "o", "r", "e">>)}}

MatchesOverTen(s) ==
    UNION {{<<i, i, k>> : k \in {k \in DigitRunEnds(s, i) : MatchAt(s, k + 1, <<"/", "1", "0">>)}} :
           i \in 1..Len(s)}

MatchesOutOfTen(s) ==
    UNION {{<<i, i, k>> : k \in {k \in DigitRunEnds(s, i) :
                \E a \in GapEnds(s, k + 1, WS, 0) :
                    /\ MatchAtCI(s, a, <<"o", "u", "t">>)
                    /\ \E b \in GapEnds(s, a + 3, WS, 0) :
                           /\ MatchAtCI(s, b, <<"o", "f">>)
                           /\ \E c \in GapEnds(s, b + 2, WS, 0) : MatchAt(s, c, <<"1", "0">>)}} :
           i \in 1..Len(s)}

\* the group of the leftmost match, the longest one at that start
LeftmostGroup(s, M) ==
    LET i0 == MinOf({m[1] : m \in M})
        k0 == MaxOf({m[3] : m \in {m \in M : m[1] = i0}})
        j0 == CHOOSE j \in {m[2] : m \in {m \in M : m[1] = i0 /\ m[3] = k0}} : TRUE
    IN  SubSeq(s, j0, k0)

RECURSIVE DecimalValue(_)
DecimalValue(g) ==
    IF g = <<>> THEN 0
    ELSE 10 * DecimalValue(SubSeq(g, 1, Len(g) - 1)) + DigitVal(g[Len(g)])

\* the integer captured by the first pattern, in the order of the claim, that
\* matches somewhere in the text, and 5 when none matches
FirstPatternScore(s) ==
    LET M == <<MatchesMatchScore(s), MatchesScoreWord(s), MatchesOverTen(s), MatchesOutOfTen(s)>>
        hits == {p \in 1..4 : M[p] # {}}
    IN  IF hits = {} THEN 5 ELSE DecimalValue(LeftmostGroup(s, M[MinOf(hits)]))

HrScoredEntries ==
    {hr_results[i] : i \in {i \in 1..Len(hr_results) : "score" \in DOMAIN hr_results[i]}}

\* C23: the score of an entry is the integer captured by the first of the
\* patterns 'MATCH SCORE: n', 'score n', 'n/10', 'n out of 10' that matches
\* anywhere in the analysis text, and 5 when none matches; the text
\* 'MATCH SCORE: 8 ... RECOMMENDATION: HIRE - strong fit' gives 8
C23_FirstPatternWins ==
    \A e \in HrScoredEntries :
        /\ e.score = FirstPatternScore(e.analysis)
        /\ e.analysis = A_hire8 => e.score = 8

\* a text in which 'n/10' and 'n out of 10' both match with different
\* integers: '12/10 out of 10' is scored 12, not 10
C23_Witness ==
    \E e \in HrScoredEntries :
        /\ e.analysis = <<"1", "2", "/", "1", "0", " ", "o", "u", "t", " ", "o", "f", " ", "1", "0">>
        /\ MatchesOverTen(e.analysis) # {}
        /\ MatchesOutOfTen(e.analysis) # {}
        /\ e.score = 12

----------------------------------------------------------------------------
(* Resume screener: the steps of the recommendation label *)

\* the matches <<start, group start, group end>> of 'RECOMMENDATION: LABEL'
MatchesRecommendation(s) ==
    UNION {UNION {{<<i, j, k>> : k \in {k \in j..Len(s) : \A m \in j..k : s[m] \in Upper}} :
                  j \in GapEnds(s, i + 15, WS, 0)} :
           i \in {i \in 1..Len(s) :
                    MatchAt(s, i, <<"R", "E", "C", "O", "M", "M", "E", "N", "D", "A", "T", "I", "O", "N", ":">>)}}

\* the three steps of the claim: the explicit field, then the presence of
\* the keyword of each label in the order HIRE, INTERVIEW, REJECT, then REVIEW
LabelBySteps(s) ==
    IF MatchesRecommendation(s) # {} THEN LeftmostGroup(s, MatchesRecommendation(s))
    ELSE IF ContainsCI(s, <<"h", "i", "r", "e">>) THEN HIRE
    ELSE IF ContainsCI(s, <<"i", "n", "t", "e", "r", "v", "i", "e", "w">>) THEN INTERVIEW
    ELSE IF ContainsCI(s, <<"r", "e", "j", "e", "c", "t">>) THEN REJECT
    ELSE REVIEW

\* C24: the label of an entry is the explicit 'RECOMMENDATION: LABEL' field
\* when the text has one; otherwise the first of HIRE, INTERVIEW, REJECT
\* whose keyword occurs in the text, whatever the case (a text with
\* 'interview' and 'reject' and no 'hire' gives INTERVIEW); otherwise REVIEW
C24_LabelBySteps ==
    \A e \in HrScoredEntries : e.recommendation = LabelBySteps(e.analysis)

----------------------------------------------------------------------------
(* Multi-agent code review: properties *)

\* C29: review_code returns exactly one entry for each of the five agents,
\* keyed by the agent's name, each with status 'success' or 'error'; an agent
\* whose model call raises gets an 'error' entry and the agents after it
\* are still run
C29_OneEntryPerAgent ==
    cr_pc = "done" =>
        /\ DOMAIN cr_ret = {AGENT_NAMES[k] : k \in 1..Len(AGENT_NAMES)}
        /\ Cardinality(DOMAIN cr_ret) = 5
        /\ Len(cr_prompts) = 5
        /\ \A k \in 1..Len(AGENT_NAMES) :
               /\ cr_ret[AGENT_NAMES[k]].agent = AGENT_NAMES[k]
               /\ cr_ret[AGENT_NAMES[k]].status = (IF cr_llm[k].ok THEN "success" ELSE "error")

\* the call of the second agent raised, the calls of the others did not
C29_Witness ==
    /\ cr_pc = "done"
    /\ ~cr_llm[2].ok
    /\ \A k \in {1, 3, 4, 5} : cr_llm[k].ok
    /\ cr_ret["SpeedDemon"].status = "error"
    /\ cr_ret["ArchitectMind"].status = "success"

----------------------------------------------------------------------------
(* Prompt templates: properties *)

\* C25: every field supplied to a prompt template is in the rendered prompt:
\* each prompt a review agent sends contains the submitted code and the
\* language, and the prompt of generate_recipe contains the recipe history
\* when the memory is enabled
C25_FieldsInPrompt ==
    /\ \A k \in 1..Len(cr_prompts) :
           /\ Contains(cr_prompts[k], cr_code)
           /\ Contains(cr_prompts[k], cr_language)
    /\ \A f \in DOMAIN rc_context \ {"none"} : Contains(rc_prompt, rc_context[f])

----------------------------------------------------------------------------
(* Chat clone: properties *)

\* C26: between script runs the messages list has even length, the message
\* at each even index (0-based) is a submitted input, in submission order,
\* and the message after it is the value getresponse returned for that
\* input, also when the chain could not be made or the prediction failed
C26_MessagesAlternate ==
    ch_pc = "idle" =>
        /\ Len(ch_messages) = 2 * ch_n
        /\ Len(ch_calls) = ch_n
        /\ \A k \in 1..ch_n :
               /\ ch_messages[2 * k - 1] = ch_calls[k].input
               /\ ch_messages[2 * k - 1] \in ChatInputs
               /\ ch_messages[2 * k] = ch_calls[k].reply

\* three submits: the chain could not be made, then the prediction failed,
\* then the model answered
C26_Witness ==
    /\ ch_pc = "idle"
    /\ ch_n = 3
    /\ Len(ch_messages) = 6
    /\ ch_messages[2] = M_connect
    /\ ch_messages[4] = M_generate
    /\ ch_messages[6] \in ChatReplies

\* C27: a chain in the session is never made again or replaced: every step
\* keeps its identity, its model and base_url, and only extends its memory,
\* whatever model_name is passed; a getresponse call that finds no chain
\* attempts the construction, and a failed construction leaves None
C27_ChainMadeOnce ==
    [][/\ ch_conversation # None =>
              /\ ch_conversation' # None
              /\ ch_conversation'.id = ch_conversation.id
              /\ ch_conversation'.model = ch_conversation.model
              /\ ch_conversation'.base_url = ch_conversation.base_url
              /\ IsPrefix(ch_conversation.memory, ch_conversation'.memory)
       /\ (ch_pc = "get" /\ ch_conversation = None) =>
              /\ ch_attempts' = ch_attempts + 1
              /\ ch_conversation' # None \/ (ch_conversation' = None /\ ch_reply' = M_connect)]_vars

\* the construction failed once, the chain was then made for one model and
\* has answered, and getresponse is now called with another model
C27_Witness ==
    /\ ch_conversation # None
    /\ ch_conversation.id = 2
    /\ ch_conversation.memory # <<>>
    /\ ch_pc = "reply"
    /\ ch_model # ch_conversation.model
    /\ Len(ch_calls) = 3

----------------------------------------------------------------------------
(* Text-to-SQL: properties *)

\* C28: the SQL text execute_query_and_get_answer returns, which is shown and
\* stored in the chat history, is the query the database executed to produce
\* the returned result, whatever the model answers on each call
C28_ReturnedQueryWasExecuted ==
    /\ (sq_pc = "show" /\ ~sq_ret.none) =>
           /\ sq_executed[Len(sq_executed)] = sq_ret.sql
           /\ sq_ret.result = RunQuery(sq_ret.sql)
    /\ \A k \in 1..Len(sq_history) : sq_history[k].result = RunQuery(sq_history[k].sql)

----------------------------------------------------------------------------
(* MCQ maker: the shape of the parse result *)

\* a mapping with a "questions" list whose elements have a question and options
HasQuestionList(v) ==
    /\ IsObj(v)
    /\ K_questions \in Keys(v)
    /\ v.f[K_questions].t = "arr"
    /\ \A k \in 1..Len(v.f[K_questions].xs) :
           /\ IsObj(v.f[K_questions].xs[k])
           /\ {K_question, K_options} \subseteq Keys(v.f[K_questions].xs[k])

\* C30: parse_mcq_response returns, for every response, a mapping with a
\* 'questions' list whose elements have 'question' and 'options', which
\* display_mcqs renders without raising; the line parser is used exactly
\* when the response has no brace span or the span is not valid JSON
C30_ParseResultRenders ==
    /\ mcq_pc \in {"done", "shown"} =>
           /\ mcq_data.ok
           /\ HasQuestionList(mcq_data.v)
           /\ mcq_tier = "lines" <=>
                  (~HasSpan(PartsText(mcq_resp)) \/ ~JsonLoads(GreedySpan(PartsText(mcq_resp))).ok)
    /\ mcq_view # "raised"

====
